---- MODULE Spec2Model ----
(***************************************************************************)
(* Model of the exoplanet detection core: the ExoplanetDetector class      *)
(* (mlModel) with its blob store, and the pure signal-processing functions *)
(* of dataProcessing (padOrTruncate, normalizeFlux, detrendLightCurve,     *)
(* calculateMedian).                                                       *)
(*                                                                         *)
(* JavaScript numbers are modelled as pairs <<n, d>>: a reduced fraction   *)
(* n/d with d > 0, NaN as <<0, 0>>, +Infinity as <<1, 0>>, -Infinity as    *)
(* <<-1, 0>>, and the value `undefined` (an array read out of range) as    *)
(* <<0, -1>>.                                                              *)
(***************************************************************************)
EXTENDS Integers, Sequences, FiniteSets, TLC

VARIABLES
    model,          \* detector -> its parameter set (this.model), or NoModel
    modelVersion,   \* detector -> this.modelVersion
    store,          \* path -> blob held by the external key-value store
    saved,          \* path -> the parameter set last saved there successfully
    implicitBuilds, \* detector -> buildModel calls made by predict/trainModel
    last,           \* the last completed call on a detector and its outcome
    shaped,         \* the last padOrTruncate call: arguments and result
    detrended,      \* the last detrendLightCurve call: argument and result
    analysis        \* the last call of another pure function: name, input, result

vars == <<model, modelVersion, store, saved, implicitBuilds, last, shaped, detrended,
          analysis>>

detectorVars == <<model, modelVersion, store, saved, implicitBuilds, last>>

(***************************************************************************)
(* Bounds of the model.                                                    *)
(***************************************************************************)
\* parameter sets are told apart by a weight index 0..MaxWeights
MaxWeights == 1
\* longest short flux series given to predict
MaxShortLen == 1
\* predict is also given series of inputLength - MaxDelta .. inputLength + MaxDelta samples
MaxDelta == 1
\* resolution of the classifier output: confidence is k / (2 * ConfSteps)
ConfSteps == 2
\* fixed-point resolution of normalized flux values (1 / NormScale)
NormScale == 4
\* cap on the count of implicit buildModel calls per detector
MaxCount == 2
\* padOrTruncate is applied to arrays of up to MaxArrLen values, target lengths 0..MaxTarget
MaxArrLen == 4
MaxTarget == 3
\* detrendLightCurve is applied to every series of up to MaxSeriesLen samples
MaxSeriesLen == 4
\* and to series of WindowDivisor + k and DegenerateLimit + k samples, k in 0..MaxLongExtra
MaxLongExtra == 1
\* width of the floating-point significand, in bits
MantissaBits == 3
\* floating-point exponents are -ExpRange..ExpRange
ExpRange == 8
\* longest series given to normalizeFlux and extractFeatures
MaxFeatLen == 3
\* foldLightCurve is given samples at times out of 0..MaxFoldTime,
\* periods k/2 for k in 1..MaxPeriodHalves and epochs 0..MaxEpoch
MaxFoldTime == 2
MaxPeriodHalves == 4
MaxEpoch == 3
\* calculateBLS is given samples at times out of 0..MaxBlsTime
MaxBlsTime == 2
\* calculateROCAUC is given up to MaxAucLen examples with confidences 0..MaxAucScore
MaxAucLen == 3
MaxAucScore == 2
\* calculateSHAPValues is given feature and baseline values -1..MaxShapValue, and
\* Math.random() returns k / RandomSteps for a k in 0..RandomSteps - 1
MaxShapValue == 1
RandomSteps == 2
\* the pipeline functions are given time, flux and label arrays of up to MaxHeapLen values
MaxHeapLen == 2
\* calls of predict and trainModel that are in progress together on one detector
MaxCalls == 2

(***************************************************************************)
(* Program constants.                                                      *)
(***************************************************************************)
inputLength == 200
DefaultInputShape == 200
MaxWindow == 101
WindowDivisor == 10
ModelVersionTag == "v1.0.0-cnn-hybrid"
DefaultPath == "localstorage://exoplanet-model"
numPeriods == 100
MaxPeriodCap == 20
StoredSamples == 10

Detectors == {"A", "B"}
Paths == {DefaultPath}
Weights == 0..MaxWeights
FluxValues == {0, 1, 2}

(***************************************************************************)
(* JavaScript number arithmetic.                                           *)
(***************************************************************************)
NaN == <<0, 0>>
PosInf == <<1, 0>>
NegInf == <<-1, 0>>
Undefined == <<0, -1>>

Abs(x) == IF x < 0 THEN -x ELSE x
Min(a, b) == IF a < b THEN a ELSE b
Max(a, b) == IF a > b THEN a ELSE b
Sign(x) == IF x > 0 THEN 1 ELSE IF x < 0 THEN -1 ELSE 0

RECURSIVE Gcd(_, _)
Gcd(a, b) == IF b = 0 THEN a ELSE Gcd(b, a % b)

\* the reduced fraction n/d, for d # 0
Frac(n, d) ==
    LET g == Gcd(Abs(n), Abs(d))
        s == IF d < 0 THEN -1 ELSE 1
    IN  <<(s * n) \div g, (s * d) \div g>>

Num(i) == <<i, 1>>
IsNaN(x) == x = NaN \/ x = Undefined
IsFinite(x) == x[2] > 0

\* x + y
NumAdd(x, y) ==
    IF IsNaN(x) \/ IsNaN(y) THEN NaN
    ELSE IF ~IsFinite(x) /\ ~IsFinite(y) THEN (IF x = y THEN x ELSE NaN)
    ELSE IF ~IsFinite(x) THEN x
    ELSE IF ~IsFinite(y) THEN y
    ELSE Frac(x[1] * y[2] + y[1] * x[2], x[2] * y[2])

\* x / y
NumDiv(x, y) ==
    IF IsNaN(x) \/ IsNaN(y) THEN NaN
    ELSE IF ~IsFinite(x) /\ ~IsFinite(y) THEN NaN
    ELSE IF ~IsFinite(x) THEN <<x[1] * (IF y[1] < 0 THEN -1 ELSE 1), 0>>
    ELSE IF ~IsFinite(y) THEN Num(0)
    ELSE IF y[1] = 0 THEN (IF x[1] = 0 THEN NaN ELSE <<Sign(x[1]), 0>>)
    ELSE Frac(x[1] * y[2], x[2] * y[1])

\* x < y on finite numbers
NumLess(x, y) == x[1] * y[2] < y[1] * x[2]

\* arr[i] with 0-based index i; undefined outside the array
At(arr, i) == IF i >= 0 /\ i < Len(arr) THEN arr[i + 1] ELSE Undefined

\* arr.slice(start, end) with 0-based bounds, 0 <= start
Slice(arr, start, end) ==
    IF end <= start THEN <<>> ELSE SubSeq(arr, start + 1, Min(end, Len(arr)))

\* s[lo] + ... + s[hi]
RECURSIVE SumRange(_, _, _)
SumRange(s, lo, hi) ==
    IF lo > hi THEN 0
    ELSE IF lo = hi THEN s[lo]
    ELSE LET mid == (lo + hi) \div 2
         IN  SumRange(s, lo, mid) + SumRange(s, mid + 1, hi)

\* arr.reduce((a, b) => a + b, 0) on integers
SumSeq(s) == SumRange(s, 1, Len(s))

\* the sequences over S of length 0..n
SeqsUpTo(S, n) == UNION {[1..k -> S] : k \in 0..n}

(***************************************************************************)
(* dataProcessing: calculateMedian, detrendLightCurve, normalizeFlux.      *)
(***************************************************************************)
\* s with x inserted before the first element greater than x (s ascending)
RECURSIVE InsertAsc(_, _)
InsertAsc(x, s) ==
    IF s = <<>> THEN <<x>>
    ELSE IF NumLess(x, Head(s)) THEN <<x>> \o s
    ELSE <<Head(s)>> \o InsertAsc(x, Tail(s))

\* [...arr].sort((a, b) => a - b)
RECURSIVE SortAsc(_)
SortAsc(arr) ==
    IF arr = <<>> THEN <<>>
    ELSE InsertAsc(arr[Len(arr)], SortAsc(SubSeq(arr, 1, Len(arr) - 1)))

\* a median that takes the upper middle value of an even-length array
calculateMedianUpper(arr) == At(SortAsc(arr), Len(arr) \div 2)

calculateMedian(arr) ==
    LET sorted == SortAsc(arr)
        mid == Len(sorted) \div 2
    IN  IF Len(sorted) % 2 = 0
        THEN NumDiv(NumAdd(At(sorted, mid - 1), At(sorted, mid)), Num(2))
        ELSE At(sorted, mid)

\* Math.min(101, Math.floor(time.length / 10))
windowSize(n) == Min(MaxWindow, n \div WindowDivisor)

detrendLightCurve(data) ==
    LET time == data.time
        flux == data.flux
        w == windowSize(Len(time))
        detrendedFlux ==
            [k \in 1..Len(flux) |->
                LET i == k - 1
                    start == Max(0, i - (w \div 2))
                    end == Min(Len(flux), i + (w \div 2))
                    window == Slice(flux, start, end)
                    median == calculateMedian(window)
                IN  NumDiv(flux[k], median)]
    IN  [time |-> time, flux |-> detrendedFlux]

\* x / y rounded towards zero, y > 0
TruncDiv(x, y) == Sign(x) * (Abs(x) \div y)

\* the largest r in lo..hi with r * r <= x
RECURSIVE SqrtIn(_, _, _)
SqrtIn(x, lo, hi) ==
    IF lo = hi THEN lo
    ELSE LET mid == (lo + hi + 1) \div 2
         IN  IF mid * mid <= x THEN SqrtIn(x, mid, hi) ELSE SqrtIn(x, lo, mid - 1)

ISqrt(x) == SqrtIn(x, 0, Min(x, 46340))

\* normalizeFlux on integer flux values; the result is in units of 1 / NormScale,
\* rounded towards zero.  With n = flux.length, S = sum(flux) and
\* V = sum((n * f - S)^2):  mean = S / n,  std = sqrt(V * n) / n^2  and
\* (f - mean) / std = (n * f - S) * n / sqrt(V * n); std || 1 is 1 when V = 0.
normalizeFlux(flux) ==
    LET n == Len(flux)
        S == SumSeq(flux)
        V == SumSeq([i \in 1..n |-> (n * flux[i] - S) * (n * flux[i] - S)])
        root == ISqrt(V * n * NormScale * NormScale)
    IN  [i \in 1..n |->
            IF V = 0
            THEN TruncDiv((n * flux[i] - S) * NormScale, n)
            ELSE TruncDiv((n * flux[i] - S) * n * NormScale * NormScale, root)]

(***************************************************************************)
(* ExoplanetDetector.padOrTruncate.                                        *)
(***************************************************************************)
\* variant of padOrTruncate that cuts the head off instead of the tail
PadOrTruncateDropHead(arr, length) ==
    IF Len(arr) = length THEN arr
    ELSE IF Len(arr) > length
         THEN SubSeq(arr, Len(arr) - length + 1, Len(arr))
         ELSE arr \o [i \in 1..(length - Len(arr)) |-> 0]

padOrTruncate(arr, length) ==
    IF Len(arr) = length THEN arr
    ELSE IF Len(arr) > length
         THEN Slice(arr, 0, length)
         ELSE arr \o [i \in 1..(length - Len(arr)) |-> 0]

(***************************************************************************)
(* Inputs.  A light curve is named by a descriptor: a short series by its  *)
(* flux values, a long one by its length and the position of its dip.      *)
(***************************************************************************)
\* a flat series of n samples of flux 1 with one sample of flux 0
LongFlux(n, dip) == [i \in 1..n |-> IF i = dip THEN 0 ELSE 1] \o <<>>
LongLengths == (inputLength - MaxDelta)..(inputLength + MaxDelta)

ShortCurve(vals) == [n |-> Len(vals), dip |-> 0, vals |-> vals]
LongCurve(n, dip) == [n |-> n, dip |-> dip, vals |-> <<>>]

\* lightCurve.flux
FluxOf(curve) == IF curve.dip = 0 THEN curve.vals ELSE LongFlux(curve.n, curve.dip)

TestCurves == {ShortCurve(<<2, 0>>), ShortCurve(<<0, 2>>), LongCurve(inputLength + 1, 1)}

Curves ==
    {ShortCurve(v) : v \in SeqsUpTo(FluxValues, MaxShortLen)}
        \cup {LongCurve(n, 1) : n \in LongLengths}
        \cup {LongCurve(n, n) : n \in LongLengths}
        \cup TestCurves

\* the training sets given to trainModel
TrainSets == {<<>>, <<ShortCurve(<<2, 0>>)>>}

\* normalizeFlux, then padOrTruncate to the input length of the network
Preprocess(flux) == padOrTruncate(normalizeFlux(flux), inputLength)

\* Preprocess tabulated over the curves, as pairs <<curve, processed>>
PreprocessTable == {<<c, Preprocess(FluxOf(c)) \o <<>>>> : c \in Curves}
Preprocessed(curve) == (CHOOSE p \in PreprocessTable : p[1] = curve)[2]

(***************************************************************************)
(* ExoplanetDetector: parameter sets, the forward pass and the blob store. *)
(***************************************************************************)
\* this.model = null
NoModel == [inputShape |-> 0, weights |-> -1]
ParamSets == [inputShape : {DefaultInputShape}, weights : Weights]

\* buildModel(): a compiled network for inputShape = 200, randomly initialized
buildModel(w) == [inputShape |-> DefaultInputShape, weights |-> w]

\* variant of the guard below that is true of every detector
NeedsBuildAlways(m) == TRUE

\* if (!this.model) in predict and trainModel
NeedsBuild(m) == m = NoModel

\* if (!this.model) { await this.buildModel(); }
EnsureModel(m, fresh) == IF NeedsBuild(m) THEN fresh ELSE m

\* The network is a fixed function of its weights and input; it is modelled
\* by a linear unit on the first two input positions followed by the
\* sigmoid output unit, which maps every logit into 0 .. 2 * ConfSteps
\* (confidence 0 .. 1), logit 0 to ConfSteps (confidence 0.5).
Logit(w, x) == w + TruncDiv((2 * w - 1) * x[1] + w * x[2], NormScale)

\* variant of the output unit without the saturation of the sigmoid
SigmoidUnbounded(z) == ConfSteps + z

Sigmoid(z) == Max(0, Min(2 * ConfSteps, ConfSteps + z))

\* tf.tensor2d([processed]) fed to a network built for m.inputShape values
ShapeMismatch(m, processed) == Len(processed) # m.inputShape

\* this.model.predict(input), then prediction.data()[0]
Forward(m, processed) == Sigmoid(Logit(m.weights, processed))

\* variant of the threshold below that counts 0.5 as a detection
IsExoplanetInclusive(confidence) == confidence >= ConfSteps

\* confidence > 0.5
IsExoplanet(confidence) == confidence > ConfSteps

\* |d output / d input|, one value per input position
computeSaliency(m, input) ==
    IF m = NoModel THEN <<>>
    ELSE [i \in 1..Len(input) |->
            Abs(IF i = 1 THEN 2 * m.weights - 1 ELSE IF i = 2 THEN m.weights ELSE 0)]

\* predict(lightCurve) on a detector holding m, where buildModel would draw fresh
predict(m, fresh, curve) ==
    LET built == NeedsBuild(m)
        m1 == EnsureModel(m, fresh)
        processed == Preprocessed(curve)
        threw == ShapeMismatch(m1, processed)
        confidence == IF threw THEN 0 ELSE Forward(m1, processed)
    IN  [model |-> m1,
         built |-> built,
         threw |-> threw,
         confidence |-> confidence,
         isExoplanet |-> IF threw THEN FALSE ELSE IsExoplanet(confidence),
         saliencyLen |-> IF threw THEN 0
                        ELSE Cardinality(DOMAIN computeSaliency(m1, processed)),
         processedLen |-> Len(processed)]

\* the store's record of a parameter set: topology and weight data
NoBlob == [topology |-> 0, weightData |-> -1]
CorruptBlob == [topology |-> -1, weightData |-> -1]
Serialize(m) == [topology |-> m.inputShape, weightData |-> m.weights]
Deserialize(blob) == [inputShape |-> blob.topology, weights |-> blob.weightData]
Loadable(blob) == blob # NoBlob /\ blob # CorruptBlob

\* x * y
NumMul(x, y) ==
    IF IsNaN(x) \/ IsNaN(y) THEN NaN
    ELSE IF ~IsFinite(x) \/ ~IsFinite(y)
         THEN (IF x[1] = 0 \/ y[1] = 0 THEN NaN ELSE <<Sign(x[1]) * Sign(y[1]), 0>>)
    ELSE Frac(x[1] * y[1], x[2] * y[2])

\* x || 0
OrZero(x) == IF IsNaN(x) \/ x = Num(0) THEN Num(0) ELSE x

\* variant of the insertion below that sorts by ascending prediction
RECURSIVE InsertAscending(_, _)
InsertAscending(x, s) ==
    IF s = <<>> THEN <<x>>
    ELSE IF Head(s).prediction > x.prediction THEN <<x>> \o s
    ELSE <<Head(s)>> \o InsertAscending(x, Tail(s))

\* variant of the insertion below that puts a pair before the pairs it ties with
RECURSIVE InsertBeforeTies(_, _)
InsertBeforeTies(x, s) ==
    IF s = <<>> THEN <<x>>
    ELSE IF Head(s).prediction <= x.prediction THEN <<x>> \o s
    ELSE <<Head(s)>> \o InsertBeforeTies(x, Tail(s))

\* pairs.sort((a, b) => b.prediction - a.prediction): the sort is stable
RECURSIVE InsertDesc(_, _)
InsertDesc(x, s) ==
    IF s = <<>> THEN <<x>>
    ELSE IF Head(s).prediction < x.prediction THEN <<x>> \o s
    ELSE <<Head(s)>> \o InsertDesc(x, Tail(s))

RECURSIVE SortDesc(_)
SortDesc(pairs) ==
    IF pairs = <<>> THEN <<>>
    ELSE InsertDesc(pairs[Len(pairs)], SortDesc(SubSeq(pairs, 1, Len(pairs) - 1)))

\* the loop of calculateROCAUC over the sorted pairs
RECURSIVE AucWalk(_, _, _)
AucWalk(pairs, truePositives, auc) ==
    IF pairs = <<>> THEN auc
    ELSE IF Head(pairs).label = 1
         THEN AucWalk(Tail(pairs), truePositives + 1, auc)
         ELSE AucWalk(Tail(pairs), truePositives, auc + truePositives)

calculateROCAUC(labels, predictions) ==
    LET pairs == SortDesc([i \in 1..Len(labels) |->
                     [label |-> labels[i], prediction |-> predictions[i]]])
        positives == Cardinality({i \in 1..Len(labels) : labels[i] = 1})
        negatives == Len(labels) - positives
    IN  IF positives = 0 \/ negatives = 0 THEN <<1, 2>>
        ELSE NumDiv(Num(AucWalk(pairs, 0, 0)), Num(positives * negatives))

\* the state of evaluateModel's loop before any test example
EvalStart(m) ==
    [model |-> m, built |-> FALSE, threw |-> FALSE, predictions |-> <<>>,
     tp |-> 0, tn |-> 0, fp |-> 0, fn |-> 0]

\* one iteration of evaluateModel's loop: predict, then count
EvalStep(acc, fresh, curve, actual) ==
    LET result == predict(acc.model, fresh, curve)
        predicted == IF result.isExoplanet THEN 1 ELSE 0
    IN  IF result.threw
        THEN [acc EXCEPT !.model = result.model, !.threw = TRUE,
                         !.built = acc.built \/ result.built]
        ELSE [model |-> result.model,
              built |-> acc.built \/ result.built,
              threw |-> FALSE,
              predictions |-> Append(acc.predictions, result.confidence),
              tp |-> acc.tp + (IF predicted = 1 /\ actual = 1 THEN 1 ELSE 0),
              tn |-> acc.tn + (IF predicted = 0 /\ actual = 0 THEN 1 ELSE 0),
              fp |-> acc.fp + (IF predicted = 1 /\ actual = 0 THEN 1 ELSE 0),
              fn |-> acc.fn + (IF predicted = 0 /\ actual = 1 THEN 1 ELSE 0)]

RECURSIVE EvalLoop(_, _, _, _, _)
EvalLoop(acc, fresh, testData, testLabels, i) ==
    IF i > Len(testData) \/ acc.threw THEN acc
    ELSE EvalLoop(EvalStep(acc, fresh, testData[i], testLabels[i]),
                  fresh, testData, testLabels, i + 1)

NoMetrics == [accuracy |-> NaN, precision |-> NaN, recall |-> NaN,
              f1Score |-> NaN, rocAuc |-> NaN]

\* variant of the metrics below without the "|| 0" fallbacks
MetricsUnguarded(acc, n, testLabels) ==
    LET precision == NumDiv(Num(acc.tp), Num(acc.tp + acc.fp))
        recall == NumDiv(Num(acc.tp), Num(acc.tp + acc.fn))
    IN  [accuracy |-> NumDiv(Num(acc.tp + acc.tn), Num(n)),
         precision |-> precision,
         recall |-> recall,
         f1Score |-> NumDiv(NumMul(Num(2), NumMul(precision, recall)),
                            NumAdd(precision, recall)),
         rocAuc |-> calculateROCAUC(testLabels, acc.predictions)]

\* the metrics computed after the loop
Metrics(acc, n, testLabels) ==
    LET precision == OrZero(NumDiv(Num(acc.tp), Num(acc.tp + acc.fp)))
        recall == OrZero(NumDiv(Num(acc.tp), Num(acc.tp + acc.fn)))
    IN  [accuracy |-> NumDiv(Num(acc.tp + acc.tn), Num(n)),
         precision |-> precision,
         recall |-> recall,
         f1Score |-> OrZero(NumDiv(NumMul(Num(2), NumMul(precision, recall)),
                                   NumAdd(precision, recall))),
         rocAuc |-> calculateROCAUC(testLabels, acc.predictions)]

\* variant of evaluateModel that builds a missing model the way predict does
evaluateModelBuilding(m, fresh, testData, testLabels) ==
    LET acc == EvalLoop(EvalStart(EnsureModel(m, fresh)), fresh, testData, testLabels, 1)
    IN  [model |-> acc.model, threw |-> acc.threw, error |-> "",
         built |-> acc.built, acc |-> acc,
         metrics |-> IF acc.threw THEN NoMetrics
                     ELSE Metrics(acc, Len(testData), testLabels)]

\* evaluateModel(testData, testLabels) on a detector holding m
evaluateModel(m, fresh, testData, testLabels) ==
    IF m = NoModel
    THEN [model |-> m, threw |-> TRUE, error |-> "Model not initialized",
          built |-> FALSE, acc |-> EvalStart(m), metrics |-> NoMetrics]
    ELSE LET acc == EvalLoop(EvalStart(m), fresh, testData, testLabels, 1)
         IN  [model |-> acc.model, threw |-> acc.threw,
              error |-> IF acc.threw THEN "shape" ELSE "",
              built |-> acc.built, acc |-> acc,
              metrics |-> IF acc.threw THEN NoMetrics
                          ELSE Metrics(acc, Len(testData), testLabels)]

\* variant of saveModel that catches the store's error
saveModelSwallowing(m, blob, storeOk, damaged) ==
    IF m = NoModel THEN [threw |-> FALSE, blob |-> blob, wrote |-> FALSE]
    ELSE IF storeOk THEN [threw |-> FALSE, blob |-> Serialize(m), wrote |-> TRUE]
    ELSE [threw |-> FALSE, blob |-> damaged, wrote |-> FALSE]

\* variant of saveModel that clears the blob when there is no model
saveModelClearing(m, blob, storeOk, damaged) ==
    IF m = NoModel THEN [threw |-> FALSE, blob |-> NoBlob, wrote |-> FALSE]
    ELSE IF storeOk THEN [threw |-> FALSE, blob |-> Serialize(m), wrote |-> TRUE]
    ELSE [threw |-> TRUE, blob |-> damaged, wrote |-> FALSE]

\* saveModel(path): the blob at path is `blob`; a failing store leaves `damaged`
saveModel(m, blob, storeOk, damaged) ==
    IF m = NoModel THEN [threw |-> FALSE, blob |-> blob, wrote |-> FALSE]
    ELSE IF storeOk THEN [threw |-> FALSE, blob |-> Serialize(m), wrote |-> TRUE]
    ELSE [threw |-> TRUE, blob |-> damaged, wrote |-> FALSE]

\* variant of loadModel without the catch block
loadModelUncaught(m, blob, storeOk, fresh) ==
    IF storeOk /\ Loadable(blob)
    THEN [model |-> Deserialize(blob), built |-> FALSE, threw |-> FALSE]
    ELSE [model |-> m, built |-> FALSE, threw |-> TRUE]

\* variant of loadModel that drops the loaded model and builds
loadModelDiscarding(m, blob, storeOk, fresh) ==
    [model |-> fresh, built |-> TRUE, threw |-> FALSE]

\* variant of loadModel whose catch block builds only when there is no model
loadModelKeeping(m, blob, storeOk, fresh) ==
    IF storeOk /\ Loadable(blob)
    THEN [model |-> Deserialize(blob), built |-> FALSE, threw |-> FALSE]
    ELSE IF m = NoModel THEN [model |-> fresh, built |-> TRUE, threw |-> FALSE]
    ELSE [model |-> m, built |-> FALSE, threw |-> FALSE]

\* loadModel(path): try { this.model = await load } catch { await buildModel() }
loadModel(m, blob, storeOk, fresh) ==
    IF storeOk /\ Loadable(blob)
    THEN [model |-> Deserialize(blob), built |-> FALSE, threw |-> FALSE]
    ELSE [model |-> fresh, built |-> TRUE, threw |-> FALSE]

\* variant of trainModel's treatment of the version tag: bumped by training
TrainedVersionBumped(v) == "v1.0.1-cnn-hybrid"

\* trainModel does not assign this.modelVersion
TrainedVersion(v) == v

\* getModelVersion(): return this.modelVersion
getModelVersion(v) == v

\* trainModel(trainingData, labels): fit either completes or throws, and leaves
\* the weights `trained` (which may be the weights it started from)
trainModel(m, fresh, trainingData, trained, fitOk) ==
    LET built == NeedsBuild(m)
        m1 == EnsureModel(m, fresh)
        processedData == [i \in 1..Len(trainingData) |-> Preprocessed(trainingData[i])]
        mismatch == \E i \in 1..Len(processedData) : ShapeMismatch(m1, processedData[i])
    IN  IF mismatch THEN [model |-> m1, built |-> built, threw |-> TRUE]
        ELSE [model |-> [m1 EXCEPT !.weights = trained], built |-> built,
              threw |-> ~fitOk]

(***************************************************************************)
(* Floating-point arithmetic.  A JavaScript number has a significand of    *)
(* fixed width; every operation returns the representable number nearest   *)
(* to the exact result, ties going to the even significand.  The model     *)
(* keeps the rule and takes the width MantissaBits and the exponent range  *)
(* -ExpRange..ExpRange as bounds.                                          *)
(***************************************************************************)
\* -x
NumNeg(x) == IF IsNaN(x) THEN NaN ELSE <<-x[1], x[2]>>

\* x - y
NumSub(x, y) == NumAdd(x, NumNeg(y))

\* 2^k <= a / d, for a, d > 0
AtLeastPow2(k, a, d) ==
    IF k >= 0 THEN 2 ^ k <= a \div d
    ELSE (d + 2 ^ (-k) - 1) \div (2 ^ (-k)) <= a

\* m * 2^e as a reduced fraction
Scaled(m, e) == IF e >= 0 THEN Frac(m * (2 ^ e), 1) ELSE Frac(m, 2 ^ (-e))

\* the k with 2^k <= |x| < 2^(k+1), for x finite, not 0 and within the range
ExponentOf(x) ==
    CHOOSE j \in (-ExpRange)..ExpRange :
        AtLeastPow2(j, Abs(x[1]), x[2]) /\ ~AtLeastPow2(j + 1, Abs(x[1]), x[2])

\* the representable number nearest to x; a magnitude under 2^-ExpRange
\* becomes 0 and one of 2^(ExpRange+1) or more becomes infinite
Round(x) ==
    IF ~IsFinite(x) \/ x[1] = 0 THEN x
    ELSE LET a == Abs(x[1])
             d == x[2]
         IN  IF AtLeastPow2(ExpRange + 1, a, d) THEN <<Sign(x[1]), 0>>
             ELSE IF ~AtLeastPow2(-ExpRange, a, d) THEN Num(0)
             ELSE LET e == ExponentOf(x) - (MantissaBits - 1)
                      num == IF e >= 0 THEN a ELSE a * (2 ^ (-e))
                      den == IF e >= 0 THEN d * (2 ^ e) ELSE d
                      m0 == num \div den
                      r == num - m0 * den
                      m == IF 2 * r > den \/ (2 * r = den /\ m0 % 2 = 1)
                           THEN m0 + 1 ELSE m0
                  IN  Scaled(Sign(x[1]) * m, e)

FAdd(x, y) == Round(NumAdd(x, y))
FSub(x, y) == Round(NumSub(x, y))
FDiv(x, y) == Round(NumDiv(x, y))

\* x^k, exactly
RECURSIVE NumPow(_, _)
NumPow(x, k) == IF k = 0 THEN Num(1) ELSE NumMul(x, NumPow(x, k - 1))

\* Math.pow(x, k) for a whole k > 0 and a representable x; a power that is
\* out of the range by the exponent of x alone is not multiplied out
FPow(x, k) ==
    IF ~IsFinite(x) \/ x[1] = 0 THEN NumPow(x, k)
    ELSE IF (ExponentOf(x) + 1) * k <= -ExpRange THEN Num(0)
    ELSE IF ExponentOf(x) * k > ExpRange
         THEN <<(IF x[1] < 0 /\ k % 2 = 1 THEN -1 ELSE 1), 0>>
    ELSE Round(NumPow(x, k))

\* a square root left out
FSqrtOmitted(x) == x

\* Math.sqrt(x) for a representable x: the representable number nearest to
\* the square root of x
FSqrt(x) ==
    IF IsNaN(x) \/ x = NegInf \/ (IsFinite(x) /\ x[1] < 0) THEN NaN
    ELSE IF x = PosInf \/ x[1] = 0 THEN x
    ELSE LET e == (ExponentOf(x) \div 2) - (MantissaBits - 1)
             m0 == CHOOSE m \in (2 ^ (MantissaBits - 1))..(2 ^ MantissaBits - 1) :
                      /\ ~NumLess(x, NumMul(Scaled(m, e), Scaled(m, e)))
                      /\ NumLess(x, NumMul(Scaled(m + 1, e), Scaled(m + 1, e)))
             mid == Scaled(2 * m0 + 1, e - 1)
             mid2 == NumMul(mid, mid)
         IN  IF NumLess(x, mid2) THEN Scaled(m0, e)
             ELSE IF NumLess(mid2, x) THEN Scaled(m0 + 1, e)
             ELSE IF m0 % 2 = 0 THEN Scaled(m0, e) ELSE Scaled(m0 + 1, e)

\* arr.reduce((a, b) => a + b, acc) from 1-based index i on
RECURSIVE FSumFrom(_, _, _)
FSumFrom(arr, i, acc) ==
    IF i > Len(arr) THEN acc ELSE FSumFrom(arr, i + 1, FAdd(acc, arr[i]))

\* flux.reduce((sum, val) => sum + Math.pow((val - mean) / scale, k), acc) from i on
RECURSIVE FSumPowFrom(_, _, _, _, _, _)
FSumPowFrom(flux, mean, scale, k, i, acc) ==
    IF i > Len(flux) THEN acc
    ELSE FSumPowFrom(flux, mean, scale, k, i + 1,
                     FAdd(acc, FPow(FDiv(FSub(flux[i], mean), scale), k)))

\* x || 1
OrOne(x) == IF IsNaN(x) \/ x = Num(0) THEN Num(1) ELSE x

\* normalizeFlux on floating-point flux values
normalizeFluxFloat(flux) ==
    LET n == Num(Len(flux))
        mean == FDiv(FSumFrom(flux, 1, Num(0)), n)
        std == FSqrt(FDiv(FSumPowFrom(flux, mean, Num(1), 2, 1, Num(0)), n))
    IN  [i \in 1..Len(flux) |-> FDiv(FSub(flux[i], mean), OrOne(std))]

(***************************************************************************)
(* dataProcessing: foldLightCurve.                                         *)
(***************************************************************************)
\* x % y: the remainder has the sign of the dividend x
JsRem(x, y) ==
    IF IsNaN(x) \/ IsNaN(y) \/ ~IsFinite(x) THEN NaN
    ELSE IF ~IsFinite(y) THEN x
    ELSE IF y[1] = 0 THEN NaN
    ELSE LET a == x[1] * y[2]
             b == x[2] * y[1]
             q == Sign(a) * Sign(b) * (Abs(a) \div Abs(b))
         IN  NumSub(x, NumMul(y, Num(q)))

\* s with x inserted before the first element of greater phase (s ascending)
RECURSIVE InsertByPhase(_, _)
InsertByPhase(x, s) ==
    IF s = <<>> THEN <<x>>
    ELSE IF NumLess(x.phase, Head(s).phase) THEN <<x>> \o s
    ELSE <<Head(s)>> \o InsertByPhase(x, Tail(s))

\* points.sort((a, b) => a.phase - b.phase)
RECURSIVE SortByPhase(_)
SortByPhase(points) ==
    IF points = <<>> THEN <<>>
    ELSE InsertByPhase(points[Len(points)],
                       SortByPhase(SubSeq(points, 1, Len(points) - 1)))

foldLightCurve(data, period, epoch) ==
    LET time == data.time
        flux == data.flux
        phases == [i \in 1..Len(time) |->
                      NumDiv(JsRem(NumSub(time[i], epoch), period), period)]
        sorted == SortByPhase([i \in 1..Len(phases) |->
                                  [phase |-> phases[i], flux |-> At(flux, i - 1)]])
    IN  [time |-> [i \in 1..Len(sorted) |-> sorted[i].phase],
         flux |-> [i \in 1..Len(sorted) |-> sorted[i].flux]]

(***************************************************************************)
(* dataProcessing: evaluatePeriod and calculateBLS, on exact fractions.    *)
(* A score |depth| * sqrt(n) is kept as its square, depth^2 * n, in the    *)
(* field score2: scores are never negative, so the squares compare as the  *)
(* scores do, and the square of NaN is NaN.                                *)
(***************************************************************************)
\* Math.min(x, y)
NumMin(x, y) ==
    IF IsNaN(x) \/ IsNaN(y) THEN NaN ELSE IF NumLess(y, x) THEN y ELSE x

\* arr.reduce((a, b) => a + b, 0)
RECURSIVE NumSum(_)
NumSum(arr) ==
    IF arr = <<>> THEN Num(0)
    ELSE NumAdd(NumSum(SubSeq(arr, 1, Len(arr) - 1)), arr[Len(arr)])

\* the values flux[i] of the samples whose phase does (or does not) pass the test
RECURSIVE Partition(_, _, _, _)
Partition(flux, member, want, i) ==
    IF i > Len(member) THEN <<>>
    ELSE (IF member[i] = want THEN <<At(flux, i - 1)>> ELSE <<>>)
            \o Partition(flux, member, want, i + 1)

\* a test that also takes the phases 0.1 and 0.9 as in transit
InTransitInclusive(phase) == ~NumLess(<<1, 10>>, phase) \/ ~NumLess(phase, <<9, 10>>)

\* phase < 0.1 || phase > 0.9
InTransit(phase) == NumLess(phase, <<1, 10>>) \/ NumLess(<<9, 10>>, phase)

evaluatePeriod(data, period) ==
    LET time == data.time
        flux == data.flux
        member == [i \in 1..Len(time) |->
                      InTransit(NumDiv(JsRem(time[i], period), period))]
        inTransit == Partition(flux, member, TRUE, 1)
        outTransit == Partition(flux, member, FALSE, 1)
    IN  IF Len(inTransit) = 0 \/ Len(outTransit) = 0
        THEN [depth |-> Num(0), score2 |-> Num(0)]
        ELSE LET inMean == NumDiv(NumSum(inTransit), Num(Len(inTransit)))
                 outMean == NumDiv(NumSum(outTransit), Num(Len(outTransit)))
                 depth == NumSub(Num(1), NumDiv(inMean, outMean))
             IN  [depth |-> depth,
                  score2 |-> NumMul(NumMul(depth, depth), Num(Len(inTransit)))]

minPeriod == <<1, 2>>

\* Math.min(20, (time[time.length - 1] - time[0]) / 3)
maxPeriodOf(data) ==
    NumMin(Num(MaxPeriodCap),
           NumDiv(NumSub(At(data.time, Len(data.time) - 1), At(data.time, 0)), Num(3)))

\* minPeriod + (maxPeriod - minPeriod) * i / numPeriods
PeriodAt(maxPeriod, i) ==
    NumAdd(minPeriod, NumDiv(NumMul(NumSub(maxPeriod, minPeriod), Num(i)), Num(numPeriods)))

\* a loop body that also takes a candidate of equal score
BLSStepInclusive(best, period, r) ==
    IF ~NumLess(r.score2, best.score2) /\ ~IsNaN(r.score2)
    THEN [period |-> period, depth |-> r.depth, score2 |-> r.score2]
    ELSE best

\* the body of the loop: if (score > bestScore) { ... }
BLSStep(best, period, r) ==
    IF NumLess(best.score2, r.score2)
    THEN [period |-> period, depth |-> r.depth, score2 |-> r.score2]
    ELSE best

\* bestPeriod, bestDepth and bestScore before the loop
NoBest == [period |-> Num(0), depth |-> Num(0), score2 |-> Num(0)]

(***************************************************************************)
(* mlModel: extractFeatures, on floating-point flux values.                *)
(***************************************************************************)
\* an extractFeatures that guards the division by std the way normalizeFlux does
extractFeaturesGuarded(lightCurve) ==
    LET flux == lightCurve.flux
        n == Num(Len(flux))
        mean == FDiv(FSumFrom(flux, 1, Num(0)), n)
        variance == FDiv(FSumPowFrom(flux, mean, Num(1), 2, 1, Num(0)), n)
        std == FSqrt(variance)
        sorted == SortAsc(flux)
        min == At(sorted, 0)
        max == At(sorted, Len(sorted) - 1)
    IN  [mean |-> mean, variance |-> variance, std |-> std, min |-> min, max |-> max,
         range |-> FSub(max, min),
         skewness |-> FDiv(FSumPowFrom(flux, mean, OrOne(std), 3, 1, Num(0)), n),
         kurtosis |-> FSub(FDiv(FSumPowFrom(flux, mean, OrOne(std), 4, 1, Num(0)), n),
                           Num(3))]

extractFeatures(lightCurve) ==
    LET flux == lightCurve.flux
        n == Num(Len(flux))
        mean == FDiv(FSumFrom(flux, 1, Num(0)), n)
        variance == FDiv(FSumPowFrom(flux, mean, Num(1), 2, 1, Num(0)), n)
        std == FSqrt(variance)
        sorted == SortAsc(flux)
        min == At(sorted, 0)
        max == At(sorted, Len(sorted) - 1)
        skewness == FDiv(FSumPowFrom(flux, mean, std, 3, 1, Num(0)), n)
        kurtosis == FSub(FDiv(FSumPowFrom(flux, mean, std, 4, 1, Num(0)), n), Num(3))
    IN  [mean |-> mean, variance |-> variance, std |-> std, min |-> min, max |-> max,
         range |-> FSub(max, min), skewness |-> skewness, kurtosis |-> kurtosis]

(***************************************************************************)
(* calculateSHAPValues.  Records are functions from keys to numbers; random *)
(* holds the value Math.random() returns in the iteration of each key.     *)
(***************************************************************************)
\* baselineValues[key] || 0
BaselineOf(baselineValues, key) ==
    IF key \in DOMAIN baselineValues THEN OrZero(baselineValues[key]) ELSE Num(0)

\* variant of calculateSHAPValues without the factor 0.5
calculateSHAPValuesUnscaled(features, baselineValues, random) ==
    [key \in DOMAIN features |->
        NumMul(NumSub(features[key], BaselineOf(baselineValues, key)), random[key])]

calculateSHAPValues(features, baselineValues, random) ==
    [key \in DOMAIN features |->
        NumMul(NumMul(NumSub(features[key], BaselineOf(baselineValues, key)),
                      random[key]),
               <<1, 2>>)]

(***************************************************************************)
(* The arrays the pipeline functions work on.  A heap is a sequence of     *)
(* arrays and a reference is an index into it; the caller's time, flux and *)
(* label arrays are at TimeRef, FluxRef and LabelsRef.  Only which array   *)
(* each method reads, allocates or changes is kept: map, filter, slice and *)
(* the spread [...arr] allocate a new array, sort changes its receiver.    *)
(***************************************************************************)
TimeRef == 1
FluxRef == 2
LabelsRef == 3

\* variant of the allocation below that hands out the array itself
NewArrayAliasing(heap, ref) == [heap |-> heap, ref |-> ref]

\* [...arr], arr.slice(..), arr.map(..), arr.filter(..): a new array
NewArrayFrom(heap, ref) == [heap |-> Append(heap, heap[ref]), ref |-> Len(heap) + 1]

\* arr.sort(..): the receiver is sorted in place
SortInPlace(heap, ref) == [heap EXCEPT ![ref] = SortAsc(@)]

\* the iterations i.. of detrendLightCurve's flux.map: a slice of flux, and
\* calculateMedian's sorted copy of it
RECURSIVE DetrendWindows(_, _)
DetrendWindows(heap, i) ==
    IF i >= Len(heap[FluxRef]) THEN heap
    ELSE LET window == NewArrayFrom(heap, FluxRef)
             sorted == NewArrayFrom(window.heap, window.ref)
         IN  DetrendWindows(SortInPlace(sorted.heap, sorted.ref), i + 1)

\* the heap after a call of the named function on the caller's arrays
HeapAfter(fn, heap) ==
    CASE fn = "detrendLightCurve" ->
            NewArrayFrom(DetrendWindows(heap, 0), FluxRef).heap
      [] fn = "normalizeFlux" -> NewArrayFrom(heap, FluxRef).heap
      [] fn = "detectTransits" -> NewArrayFrom(heap, FluxRef).heap
      [] fn = "calculateBLS" -> NewArrayFrom(heap, TimeRef).heap
      [] fn = "foldLightCurve" ->
            LET phases == NewArrayFrom(heap, TimeRef)
                sorted == NewArrayFrom(phases.heap, phases.ref)
            IN  SortInPlace(sorted.heap, sorted.ref)
      [] fn = "extractFeatures" ->
            LET sorted == NewArrayFrom(heap, FluxRef)
            IN  SortInPlace(sorted.heap, sorted.ref)
      [] fn = "predict" -> NewArrayFrom(heap, FluxRef).heap
      [] fn = "evaluateModel" ->
            LET normalized == NewArrayFrom(heap, FluxRef)
                pairs == NewArrayFrom(normalized.heap, LabelsRef)
                positives == NewArrayFrom(SortInPlace(pairs.heap, pairs.ref), LabelsRef)
            IN  positives.heap

(***************************************************************************)
(* The detectors and the store.                                            *)
(***************************************************************************)
NoPrediction == [confidence |-> 0, isExoplanet |-> FALSE, saliencyLen |-> 0,
                 processedLen |-> 0]

NoCall ==
    [op |-> "none", det |-> "", path |-> "", before |-> NoModel,
     threw |-> FALSE, error |-> "", built |-> FALSE, storeOk |-> TRUE,
     blobBefore |-> NoBlob, fluxLen |-> 0, prediction |-> NoPrediction,
     labels |-> <<>>, acc |-> EvalStart(NoModel), metrics |-> NoMetrics,
     version |-> ""]

NoShaped == [called |-> FALSE, arr |-> <<>>, length |-> 0, out |-> <<>>]
NoDetrended == [called |-> FALSE, data |-> [time |-> <<>>, flux |-> <<>>],
                out |-> [time |-> <<>>, flux |-> <<>>]]

NoAnalysis == [fn |-> "none", input |-> <<>>, out |-> <<>>]

\* the batches evaluateModel is given next to the other calls of a detector
EvalBatches ==
    {<<>>,
     <<<<ShortCurve(<<2, 0>>), 1>>>>,
     <<<<ShortCurve(<<2, 0>>), 0>>, <<LongCurve(inputLength + 1, 1), 1>>>>,
     <<<<ShortCurve(<<2, 0>>), 1>>, <<ShortCurve(<<2, 0>>), 0>>>>,
     <<<<ShortCurve(<<2, 0>>), 2>>, <<LongCurve(inputLength + 1, 1), 1>>>>}

Init ==
    /\ model = [d \in Detectors |-> NoModel]
    /\ modelVersion = [d \in Detectors |-> ModelVersionTag]
    /\ store \in [Paths -> {NoBlob, CorruptBlob} \cup {Serialize(m) : m \in ParamSets}]
    /\ saved = [p \in Paths |-> NoModel]
    /\ implicitBuilds = [d \in Detectors |-> 0]
    /\ last = NoCall
    /\ shaped = NoShaped
    /\ detrended = NoDetrended
    /\ analysis = NoAnalysis

\* the initial states with an empty store
InitAnalysis == Init /\ \A p \in Paths : store[p] = NoBlob


\* the count of implicit builds after a call that did or did not build
Counted(d, built) ==
    IF built THEN [implicitBuilds EXCEPT ![d] = @ + 1] ELSE implicitBuilds

BuildModel(d) ==
    \E w \in Weights :
        /\ model' = [model EXCEPT ![d] = buildModel(w)]
        /\ last' = [NoCall EXCEPT !.op = "buildModel", !.det = d, !.before = model[d]]
        /\ UNCHANGED <<modelVersion, store, saved, implicitBuilds, shaped, detrended, analysis>>

TrainModel(d) ==
    \E w \in Weights, trained \in Weights, fitOk \in BOOLEAN, data \in TrainSets :
    \E r \in {trainModel(model[d], buildModel(w), data, trained, fitOk)} :
        /\ r.built => implicitBuilds[d] < MaxCount
        /\ model' = [model EXCEPT ![d] = r.model]
        /\ modelVersion' = [modelVersion EXCEPT ![d] = TrainedVersion(@)]
        /\ implicitBuilds' = Counted(d, r.built)
        /\ last' = [NoCall EXCEPT !.op = "trainModel", !.det = d,
                                  !.before = model[d], !.threw = r.threw,
                                  !.error = IF r.threw THEN "fit" ELSE "",
                                  !.built = r.built]
        /\ UNCHANGED <<store, saved, shaped, detrended, analysis>>

\* predict on one of the light curves of C
Predict(d, C) ==
    \E w \in Weights, curve \in C :
    \E r \in {predict(model[d], buildModel(w), curve)} :
        /\ r.built => implicitBuilds[d] < MaxCount
        /\ model' = [model EXCEPT ![d] = r.model]
        /\ implicitBuilds' = Counted(d, r.built)
        /\ last' = [NoCall EXCEPT !.op = "predict", !.det = d,
                                  !.before = model[d], !.threw = r.threw,
                                  !.error = IF r.threw THEN "shape" ELSE "",
                                  !.built = r.built, !.fluxLen = curve.n,
                                  !.prediction =
                                      [confidence |-> r.confidence,
                                       isExoplanet |-> r.isExoplanet,
                                       saliencyLen |-> r.saliencyLen,
                                       processedLen |-> r.processedLen]]
        /\ UNCHANGED <<modelVersion, store, saved, shaped, detrended, analysis>>

\* what a failing store may leave of the blob it was writing
Damaged(blob) == {blob, NoBlob, CorruptBlob}

SaveModel(d, p) ==
    \E storeOk \in BOOLEAN :
    \E damaged \in IF storeOk THEN {store[p]} ELSE Damaged(store[p]) :
    \E r \in {saveModel(model[d], store[p], storeOk, damaged)} :
        /\ store' = [store EXCEPT ![p] = r.blob]
        /\ saved' = [saved EXCEPT ![p] =
                        IF r.wrote THEN model[d]
                        ELSE IF r.blob # store[p] THEN NoModel ELSE @]
        /\ last' = [NoCall EXCEPT !.op = "saveModel", !.det = d, !.path = p,
                                  !.before = model[d], !.threw = r.threw,
                                  !.error = IF r.threw THEN "store" ELSE "",
                                  !.storeOk = storeOk, !.blobBefore = store[p]]
        /\ UNCHANGED <<model, modelVersion, implicitBuilds, shaped, detrended, analysis>>

LoadModel(d, p) ==
    \E storeOk \in BOOLEAN, w \in Weights :
    \E r \in {loadModel(model[d], store[p], storeOk, buildModel(w))} :
        /\ model' = [model EXCEPT ![d] = r.model]
        /\ last' = [NoCall EXCEPT !.op = "loadModel", !.det = d, !.path = p,
                                  !.before = model[d], !.threw = r.threw,
                                  !.error = IF r.threw THEN "store" ELSE "",
                                  !.built = r.built, !.storeOk = storeOk,
                                  !.blobBefore = store[p]]
        /\ UNCHANGED <<modelVersion, store, saved, implicitBuilds, shaped, detrended, analysis>>

GetModelVersion(d) ==
    /\ last' = [NoCall EXCEPT !.op = "getModelVersion", !.det = d,
                              !.before = model[d],
                              !.version = getModelVersion(modelVersion[d])]
    /\ UNCHANGED <<model, modelVersion, store, saved, implicitBuilds, shaped, detrended, analysis>>

\* evaluateModel on one of the labelled batches of B
EvaluateModel(d, B) ==
    \E w \in Weights, batch \in B :
    \E testData \in {[i \in 1..Len(batch) |-> batch[i][1]]} :
    \E testLabels \in {[i \in 1..Len(batch) |-> batch[i][2]]} :
    \E r \in {evaluateModel(model[d], buildModel(w), testData, testLabels)} :
        /\ r.built => implicitBuilds[d] < MaxCount
        /\ model' = [model EXCEPT ![d] = r.model]
        /\ implicitBuilds' = Counted(d, r.built)
        /\ last' = [NoCall EXCEPT !.op = "evaluateModel", !.det = d,
                                  !.before = model[d], !.threw = r.threw,
                                  !.error = r.error, !.built = r.built,
                                  !.labels = testLabels, !.acc = r.acc,
                                  !.metrics = r.metrics]
        /\ UNCHANGED <<modelVersion, store, saved, shaped, detrended, analysis>>

\* the calls of the detectors' callers, each awaited before the next
Next ==
    \/ \E d \in Detectors : BuildModel(d)
    \/ \E d \in Detectors : TrainModel(d)
    \/ \E d \in Detectors : Predict(d, TestCurves)
    \/ \E d \in Detectors, p \in Paths : SaveModel(d, p)
    \/ \E d \in Detectors, p \in Paths : LoadModel(d, p)
    \/ \E d \in Detectors : GetModelVersion(d)
    \/ \E d \in Detectors : EvaluateModel(d, EvalBatches)

Spec == Init /\ [][Next]_vars

\* predict on every light curve of the catalogue, on built or loaded detectors
NextPredict ==
    \/ \E d \in Detectors : BuildModel(d)
    \/ \E d \in Detectors, p \in Paths : LoadModel(d, p)
    \/ \E d \in Detectors : Predict(d, Curves)

SpecPredict == Init /\ [][NextPredict]_vars

(***************************************************************************)
(* padOrTruncate and detrendLightCurve applied to bounded inputs.          *)
(***************************************************************************)
PadOrTruncateCall ==
    \E arr \in SeqsUpTo(FluxValues, MaxArrLen), length \in 0..MaxTarget :
        /\ shaped' = [called |-> TRUE, arr |-> arr, length |-> length,
                      out |-> padOrTruncate(arr, length)]
        /\ UNCHANGED <<detectorVars, detrended, analysis>>

SpecShape == Init /\ [][PadOrTruncateCall]_vars

\* the shortest series whose window holds two samples
DegenerateLimit == 2 * WindowDivisor

\* a flat series of n samples of flux 1 with flux val at position dip
FlatWith(n, dip, val) == [i \in 1..n |-> IF i = dip THEN val ELSE 1]

\* a series of n samples cycling through the flux values 1, 2, 3 in steps of a
CycleWith(n, a) == [i \in 1..n |-> 1 + ((i * a) % 3)]

\* the shortest series whose window holds four samples
WideLimit == 4 * WindowDivisor

DetrendFluxes ==
    SeqsUpTo(FluxValues, MaxSeriesLen)
        \cup {CycleWith(n, a) : n \in WideLimit..(WideLimit + MaxLongExtra), a \in {1, 2}}
        \cup {FlatWith(n, dip, val) :
                n \in (WindowDivisor..(WindowDivisor + MaxLongExtra))
                         \cup (DegenerateLimit..(DegenerateLimit + MaxLongExtra)),
                dip \in {1, 2, WindowDivisor}, val \in {0, 2}}

\* the light curve with the given integer flux values, sampled at times 0, 1, ...
LightCurve(values) ==
    [time |-> [i \in 1..Len(values) |-> Num(i - 1)] \o <<>>,
     flux |-> [i \in 1..Len(values) |-> Num(values[i])] \o <<>>]

DetrendCall ==
    \E values \in DetrendFluxes :
    \E data \in {LightCurve(values)} :
    \E out \in {detrendLightCurve(data)} :
        /\ detrended' = [called |-> TRUE, data |-> data,
                         out |-> [time |-> out.time, flux |-> out.flux \o <<>>]]
        /\ UNCHANGED <<detectorVars, shaped, analysis>>

SpecDetrend == Init /\ [][DetrendCall]_vars

(***************************************************************************)
(* normalizeFlux applied to floating-point series.                         *)
(***************************************************************************)
\* flux values that the significand holds exactly; the square of the last
\* one's distance to the next representable number is under 2^-ExpRange
FloatFlux ==
    {Num(1), Num(2), Num(2 ^ (MantissaBits - 1) - 1), Num(2 ^ MantissaBits - 2),
     Num(2 ^ MantissaBits - 1),
     Scaled(2 ^ (MantissaBits - 1) - 1, -((ExpRange \div 2) + 1))}

FloatSeries == SeqsUpTo(FloatFlux, MaxFeatLen)

NormalizeCall ==
    /\ analysis = NoAnalysis
    /\ \E flux \in FloatSeries :
          analysis' = [fn |-> "normalizeFlux", input |-> flux,
                       out |-> normalizeFluxFloat(flux) \o <<>>]
    /\ UNCHANGED <<detectorVars, shaped, detrended>>

SpecNormalize == InitAnalysis /\ [][NormalizeCall]_vars

ExtractFeaturesCall ==
    /\ analysis = NoAnalysis
    /\ \E flux \in FloatSeries :
       \E out \in {extractFeatures([time |-> [i \in 1..Len(flux) |-> Num(i - 1)],
                                     flux |-> flux])} :
          analysis' = [fn |-> "extractFeatures", input |-> flux, out |-> out]
    /\ UNCHANGED <<detectorVars, shaped, detrended>>

SpecFeatures == InitAnalysis /\ [][ExtractFeaturesCall]_vars

(***************************************************************************)
(* foldLightCurve applied to sampled series.                               *)
(***************************************************************************)
\* the strictly increasing sequences of sample times out of 0..n
RECURSIVE TimesUpTo(_)
TimesUpTo(n) ==
    IF n < 0 THEN {<<>>}
    ELSE TimesUpTo(n - 1) \cup {Append(t, Num(n)) : t \in TimesUpTo(n - 1)}

\* the light curves sampled at times out of 0..n with flux values out of F
SampledCurves(n, F) ==
    {[time |-> t, flux |-> [i \in 1..Len(t) |-> Num(f[i])]] :
        t \in TimesUpTo(n), f \in [1..n + 1 -> F]}

FoldCall ==
    /\ analysis = NoAnalysis
    /\ \E data \in SampledCurves(MaxFoldTime, {1, 2}) :
       \E k \in 1..MaxPeriodHalves, epoch \in 0..MaxEpoch :
       \E out \in {foldLightCurve(data, Frac(k, 2), Num(epoch))} :
          analysis' = [fn |-> "foldLightCurve",
                       input |-> [data |-> data, period |-> Frac(k, 2),
                                  epoch |-> Num(epoch)],
                       out |-> [time |-> out.time \o <<>>, flux |-> out.flux \o <<>>]]
    /\ UNCHANGED <<detectorVars, shaped, detrended>>

SpecFold == InitAnalysis /\ [][FoldCall]_vars

(***************************************************************************)
(* calculateBLS and evaluatePeriod applied to sampled series.              *)
(***************************************************************************)
\* calculateBLS is taken one iteration of its loop per step: analysis.i is the
\* loop index, analysis.out holds bestPeriod, bestDepth and bestScore, and
\* analysis.grid the candidates met so far; the call has returned analysis.out
\* when analysis.i = numPeriods.
CalculateBLSStart ==
    /\ analysis = NoAnalysis
    /\ \E data \in SampledCurves(MaxBlsTime, FluxValues) :
          analysis' = [fn |-> "calculateBLS", input |-> data, i |-> 0,
                       grid |-> <<>>, out |-> NoBest]
    /\ UNCHANGED <<detectorVars, shaped, detrended>>

CalculateBLSIterate ==
    /\ analysis.fn = "calculateBLS"
    /\ analysis.i < numPeriods
    /\ \E period \in {PeriodAt(maxPeriodOf(analysis.input), analysis.i)} :
       \E r \in {evaluatePeriod(analysis.input, period)} :
          analysis' = [analysis EXCEPT
                          !.i = @ + 1,
                          !.grid = Append(@, [period |-> period, depth |-> r.depth,
                                              score2 |-> r.score2]),
                          !.out = BLSStep(@, period, r)]
    /\ UNCHANGED <<detectorVars, shaped, detrended>>

NextBLS == CalculateBLSStart \/ CalculateBLSIterate

SpecBLS == InitAnalysis /\ [][NextBLS]_vars

\* sample times in twentieths: at period 1 the phases 0, 0.1, 0.5, 0.9 and 0.95
TickTimes == <<Frac(0, 20), Frac(2, 20), Frac(10, 20), Frac(18, 20), Frac(19, 20)>>

\* the strictly increasing selections of the first n tick times
RECURSIVE TicksUpTo(_)
TicksUpTo(n) ==
    IF n = 0 THEN {<<>>}
    ELSE TicksUpTo(n - 1) \cup {Append(t, TickTimes[n]) : t \in TicksUpTo(n - 1)}

TickCurves ==
    {[time |-> t, flux |-> [i \in 1..Len(t) |-> Num(f[i])]] :
        t \in TicksUpTo(Len(TickTimes)), f \in [1..Len(TickTimes) -> FluxValues]}

EvaluatePeriodCall ==
    /\ analysis = NoAnalysis
    /\ \E data \in TickCurves, k \in 1..MaxPeriodHalves :
       \E out \in {evaluatePeriod(data, Frac(k, 2))} :
          analysis' = [fn |-> "evaluatePeriod",
                       input |-> [data |-> data, period |-> Frac(k, 2)],
                       out |-> out]
    /\ UNCHANGED <<detectorVars, shaped, detrended>>

SpecPeriod == InitAnalysis /\ [][EvaluatePeriodCall]_vars

(***************************************************************************)
(* calculateSHAPValues applied to feature and baseline records, twice with *)
(* the same arguments.                                                     *)
(***************************************************************************)
ShapRecords ==
    UNION {[K -> {Num(v) : v \in (-1)..MaxShapValue}] : K \in SUBSET {"mean", "std"}}
Randoms == {Frac(k, RandomSteps) : k \in 0..(RandomSteps - 1)}

CalculateSHAPValuesCall ==
    /\ analysis = NoAnalysis
    /\ \E features \in ShapRecords, baselineValues \in ShapRecords :
       \E random \in [DOMAIN features -> Randoms] :
          analysis' = [fn |-> "calculateSHAPValues",
                       input |-> [features |-> features,
                                  baselineValues |-> baselineValues],
                       out |-> calculateSHAPValues(features, baselineValues, random),
                       calls |-> 1,
                       first |-> <<>>]
    /\ UNCHANGED <<detectorVars, shaped, detrended>>

\* a second call with the arguments of the first
CalculateSHAPValuesAgain ==
    /\ analysis.fn = "calculateSHAPValues"
    /\ analysis.calls = 1
    /\ \E random \in [DOMAIN analysis.input.features -> Randoms] :
          analysis' = [analysis EXCEPT
                          !.out = calculateSHAPValues(analysis.input.features,
                                                      analysis.input.baselineValues,
                                                      random),
                          !.calls = 2,
                          !.first = analysis.out]
    /\ UNCHANGED <<detectorVars, shaped, detrended>>

SpecSHAP == InitAnalysis /\ [][CalculateSHAPValuesCall \/ CalculateSHAPValuesAgain]_vars

(***************************************************************************)
(* The pipeline functions applied to the caller's arrays.                  *)
(***************************************************************************)
PipelineFunctions ==
    {"detrendLightCurve", "normalizeFlux", "detectTransits", "calculateBLS",
     "foldLightCurve", "extractFeatures", "predict", "evaluateModel"}

PipelineCall ==
    /\ analysis = NoAnalysis
    /\ \E fn \in PipelineFunctions, n \in 0..MaxHeapLen :
       \E time \in [1..n -> {Num(v) : v \in FluxValues}],
          flux \in [1..n -> {Num(v) : v \in FluxValues}],
          labels \in [1..n -> {Num(0), Num(1)}] :
          analysis' = [fn |-> fn,
                       input |-> <<time, flux, labels>>,
                       out |-> HeapAfter(fn, <<time, flux, labels>>)]
    /\ UNCHANGED <<detectorVars, shaped, detrended>>

SpecPipeline == InitAnalysis /\ [][PipelineCall]_vars

(***************************************************************************)
(* predict and trainModel calls in progress together on one detector.  A   *)
(* call runs without interruption from its start, or from the await it is  *)
(* suspended at, to its next await; buildModel has no await, so a call to  *)
(* it assigns this.model before the caller's await suspends.  Installs are *)
(* numbered: `installs` counts the assignments of this.model and is the    *)
(* number of the model the detector holds.                                 *)
(***************************************************************************)
Calls == 1..MaxCalls

NoCalls ==
    [fn |-> "concurrent", model |-> NoModel, installs |-> 0, overlapped |-> FALSE,
     calls |-> [p \in Calls |->
                  [kind |-> "none", pc |-> "idle", forward |-> 0, saliency |-> 0]]]

\* the calls so far, before and after the first one
CallsSoFar == IF analysis = NoAnalysis THEN NoCalls ELSE analysis

\* call p of state c runs from where it is to its next await, or to its return
RunToAwait(c, p, fresh) ==
    LET call == c.calls[p]
        usesModel ==
            [c EXCEPT !.calls[p].forward = c.installs,
                      !.calls[p].pc = IF call.kind = "predict" THEN "data" ELSE "fit"]
    IN  CASE call.pc = "start" ->
                IF NeedsBuild(c.model)
                THEN [c EXCEPT !.model = fresh, !.installs = @ + 1,
                               !.calls[p].pc = "built"]
                ELSE usesModel
          [] call.pc = "built" -> usesModel
          [] call.pc = "data" ->
                [c EXCEPT !.calls[p].saliency = c.installs,
                          !.calls[p].pc = "saliency"]
          [] call.pc \in {"saliency", "fit"} -> [c EXCEPT !.calls[p].pc = "done"]

\* predict(..) or trainModel(..) is called while other calls may be suspended
CallStart(p) ==
    /\ CallsSoFar.fn = "concurrent"
    /\ CallsSoFar.calls[p].pc = "idle"
    /\ \E kind \in {"predict", "trainModel"}, w \in Weights :
          analysis' =
              RunToAwait([CallsSoFar EXCEPT
                             !.calls[p].kind = kind,
                             !.calls[p].pc = "start",
                             !.overlapped =
                                 @ \/ \E q \in Calls :
                                         CallsSoFar.calls[q].pc \notin {"idle", "done"}],
                         p, buildModel(w))
    /\ UNCHANGED <<detectorVars, shaped, detrended>>

\* the promise that call p awaits settles and the call goes on
CallResume(p) ==
    /\ analysis # NoAnalysis
    /\ analysis.fn = "concurrent"
    /\ analysis.calls[p].pc \in {"built", "data", "saliency", "fit"}
    /\ analysis' = RunToAwait(analysis, p, NoModel)
    /\ UNCHANGED <<detectorVars, shaped, detrended>>

SpecConcurrent ==
    InitAnalysis /\ [][\E p \in Calls : CallStart(p) \/ CallResume(p)]_vars

(***************************************************************************)
(* TrainingPanel.handleTrain: one execution, taken from await to await.    *)
(* `steps` lists the detector calls that have completed, `failed` is the   *)
(* call that threw, `completions` counts the calls of onTrainingComplete.  *)
(***************************************************************************)
NoRun ==
    [fn |-> "handleTrain", pc |-> "idle", training |-> FALSE, callback |-> FALSE,
     model |-> NoModel, blob |-> NoBlob, inserts |-> 0, steps |-> <<>>,
     failed |-> "", error |-> "", completions |-> 0]

\* variant of the catch block below without the finally block
ThrownWithoutFinally(run, step, message) ==
    [run EXCEPT !.failed = step, !.error = message, !.pc = "done"]

\* catch (error) { addLog(..) } finally { setTraining(false) }
Thrown(run, step, message) ==
    [run EXCEPT !.failed = step, !.error = message, !.training = FALSE, !.pc = "done"]

\* handleTrain is called; onTrainingComplete is an optional property
HandleTrainStart ==
    /\ analysis = NoAnalysis
    /\ \E callback \in BOOLEAN :
          analysis' = [NoRun EXCEPT !.training = TRUE, !.callback = callback,
                                    !.pc = "buildModel"]
    /\ UNCHANGED <<detectorVars, shaped, detrended>>

\* await detector.buildModel() on the new detector
AwaitBuildModel ==
    /\ analysis.fn = "handleTrain"
    /\ analysis.pc = "buildModel"
    /\ \E ok \in BOOLEAN, w \in Weights :
          analysis' = IF ok
                      THEN [analysis EXCEPT !.model = buildModel(w),
                                            !.steps = Append(@, "buildModel"),
                                            !.pc = "insert"]
                      ELSE Thrown(analysis, "buildModel", "build")
    /\ UNCHANGED <<detectorVars, shaped, detrended>>

\* await supabase.from('training_data').insert(..), once per stored sample
AwaitInsert ==
    /\ analysis.fn = "handleTrain"
    /\ analysis.pc = "insert"
    /\ \E ok \in BOOLEAN :
          analysis' = IF ok
                      THEN [analysis EXCEPT
                               !.inserts = @ + 1,
                               !.pc = IF analysis.inserts + 1 < StoredSamples
                                      THEN "insert" ELSE "trainModel"]
                      ELSE Thrown(analysis, "insert", "insert")
    /\ UNCHANGED <<detectorVars, shaped, detrended>>

\* await detector.trainModel(trainingData, labels, 15, 16)
AwaitTrainModel ==
    /\ analysis.fn = "handleTrain"
    /\ analysis.pc = "trainModel"
    /\ \E w \in Weights, trained \in Weights, fitOk \in BOOLEAN, data \in TrainSets :
       \E r \in {trainModel(analysis.model, buildModel(w), data, trained, fitOk)} :
          analysis' = IF r.threw
                      THEN Thrown([analysis EXCEPT !.model = r.model], "trainModel", "fit")
                      ELSE [analysis EXCEPT !.model = r.model,
                                            !.steps = Append(@, "trainModel"),
                                            !.pc = "evaluateModel"]
    /\ UNCHANGED <<detectorVars, shaped, detrended>>

\* await detector.evaluateModel(testData, testLabels), then the metrics are shown
AwaitEvaluateModel ==
    /\ analysis.fn = "handleTrain"
    /\ analysis.pc = "evaluateModel"
    /\ \E w \in Weights, batch \in EvalBatches :
       \E r \in {evaluateModel(analysis.model, buildModel(w),
                               [i \in 1..Len(batch) |-> batch[i][1]],
                               [i \in 1..Len(batch) |-> batch[i][2]])} :
          analysis' = IF r.threw
                      THEN Thrown([analysis EXCEPT !.model = r.model],
                                  "evaluateModel", r.error)
                      ELSE [analysis EXCEPT !.model = r.model,
                                            !.steps = Append(@, "evaluateModel"),
                                            !.pc = "saveModel"]
    /\ UNCHANGED <<detectorVars, shaped, detrended>>

\* await detector.saveModel(); then onTrainingComplete(detector), if given,
\* and the finally block
AwaitSaveModel ==
    /\ analysis.fn = "handleTrain"
    /\ analysis.pc = "saveModel"
    /\ \E storeOk \in BOOLEAN, callbackOk \in BOOLEAN :
       \E damaged \in IF storeOk THEN {analysis.blob} ELSE Damaged(analysis.blob) :
       \E r \in {saveModel(analysis.model, analysis.blob, storeOk, damaged)} :
       \E saved1 \in {[analysis EXCEPT !.blob = r.blob]} :
          analysis' =
              IF r.threw THEN Thrown(saved1, "saveModel", "store")
              ELSE LET called == [saved1 EXCEPT
                                     !.steps = Append(@, "saveModel"),
                                     !.completions =
                                         IF saved1.callback THEN @ + 1 ELSE @]
                   IN  IF saved1.callback /\ ~callbackOk
                       THEN Thrown(called, "onTrainingComplete", "callback")
                       ELSE [called EXCEPT !.training = FALSE, !.pc = "done"]
    /\ UNCHANGED <<detectorVars, shaped, detrended>>

NextTrain ==
    \/ HandleTrainStart
    \/ AwaitBuildModel
    \/ AwaitInsert
    \/ AwaitTrainModel
    \/ AwaitEvaluateModel
    \/ AwaitSaveModel

\* every promise that handleTrain awaits settles
SpecTrain == InitAnalysis /\ [][NextTrain]_vars /\ WF_vars(NextTrain)

(***************************************************************************)
(* calculateROCAUC applied to labels and confidences.                      *)
(***************************************************************************)
CalculateROCAUCCall ==
    /\ analysis = NoAnalysis
    /\ \E n \in 0..MaxAucLen :
       \E labels \in [1..n -> {0, 1}], predictions \in [1..n -> 0..MaxAucScore] :
       \E out \in {calculateROCAUC(labels, predictions)} :
          analysis' = [fn |-> "calculateROCAUC",
                       input |-> [labels |-> labels, predictions |-> predictions],
                       out |-> out]
    /\ UNCHANGED <<detectorVars, shaped, detrended>>

SpecROCAUC == InitAnalysis /\ [][CalculateROCAUCCall]_vars

(***************************************************************************)
(* Properties.                                                             *)
(***************************************************************************)

\* C1: evaluateModel on a detector that holds no parameter set throws
\* 'Model not initialized' before it makes any prediction, and the detector
\* still holds no parameter set afterwards (nothing was built).
C1_EvaluateUninitializedThrows ==
    (last.op = "evaluateModel" /\ last.before = NoModel)
        => /\ last.threw
           /\ last.error = "Model not initialized"
           /\ last.acc.predictions = <<>>
           /\ ~last.built
           /\ model[last.det] = NoModel

C1_Witness ==
    /\ last.op = "evaluateModel"
    /\ last.before = NoModel
    /\ last.labels # <<>>
    /\ last.threw

\* C2: loadModel of a missing or corrupt blob completes normally and leaves
\* the detector with a freshly built parameter set, so that evaluateModel
\* called next does not raise the uninitialized-model error.
C2_LoadFallsBackToBuild ==
    (last.op = "loadModel" /\ ~Loadable(last.blobBefore))
        => /\ ~last.threw
           /\ last.built
           /\ model[last.det] \in ParamSets
           /\ \A batch \in EvalBatches :
                evaluateModel(model[last.det], buildModel(0),
                              [i \in 1..Len(batch) |-> batch[i][1]],
                              [i \in 1..Len(batch) |-> batch[i][2]]).error
                    # "Model not initialized"

C2_Witness ==
    /\ last.op = "loadModel"
    /\ last.blobBefore = CorruptBlob
    /\ last.storeOk
    /\ last.built
    /\ model[last.det] \in ParamSets

\* C3: when the store fails while saveModel writes a detector's parameter
\* set, the call ends in an error and the parameter set is unchanged.
C3_SaveFailurePropagates ==
    (last.op = "saveModel" /\ last.before # NoModel /\ ~last.storeOk)
        => /\ last.threw
           /\ model[last.det] = last.before

C3_Witness ==
    /\ last.op = "saveModel"
    /\ last.before \in ParamSets
    /\ ~last.storeOk
    /\ last.threw

C5_ReadersKeepParameters ==
    (/\ last.op \in {"predict", "evaluateModel", "saveModel", "getModelVersion"}
     /\ last.before # NoModel)
        => model[last.det] = last.before

C5_Witness ==
    /\ last.op = "evaluateModel"
    /\ last.before \in ParamSets
    /\ Len(last.acc.predictions) = 2
    /\ model[last.det] = last.before

\* C6: predict and trainModel call buildModel exactly when the detector
\* holds no parameter set, so at most once in the life of a detector.
C6_ImplicitBuildOnlyOnFirstUse ==
    /\ last.op \in {"predict", "trainModel"}
          => /\ last.built <=> last.before = NoModel
             /\ model[last.det] \in ParamSets
             /\ (last.op = "predict" /\ ~last.built) => model[last.det] = last.before
    /\ \A d \in Detectors : implicitBuilds[d] <= 1

C6_Witness ==
    /\ last.op = "predict"
    /\ ~last.built
    /\ implicitBuilds[last.det] = 1

\* C7: predict on a light curve of any length completes without error, its
\* confidence lies in [0, 1] and isExoplanet is (confidence > 0.5), so that
\* confidence 0.5 gives isExoplanet = false.
C7_PredictTotalAndThresholded ==
    last.op = "predict"
        => /\ ~last.threw
           /\ last.prediction.confidence \in 0..(2 * ConfSteps)
           /\ last.prediction.isExoplanet
                <=> (2 * last.prediction.confidence > 2 * ConfSteps)
           /\ last.prediction.processedLen = inputLength

C7_Witness ==
    /\ last.op = "predict"
    /\ last.fluxLen > inputLength
    /\ ~last.threw
    /\ last.prediction.confidence = ConfSteps
    /\ ~last.prediction.isExoplanet

\* C8: getModelVersion returns the same tag in every reachable state.
C8_VersionConstant ==
    /\ \A d \in Detectors : getModelVersion(modelVersion[d]) = ModelVersionTag
    /\ last.op = "getModelVersion" => last.version = ModelVersionTag

C8_Witness ==
    /\ last.op = "getModelVersion"
    /\ last.version = ModelVersionTag
    /\ last.before \in ParamSets
    /\ \E p \in Paths : saved[p] = last.before

\* C9 as stated: padOrTruncate returns exactly L values; a longer input has
\* its start cut off (the last L values remain), a shorter one is
\* right-padded with zeros, one of length L is returned unchanged.
C9_TruncatedFromStart ==
    shaped.called
        => /\ Len(shaped.out) = shaped.length
           /\ Len(shaped.arr) > shaped.length
                => shaped.out = SubSeq(shaped.arr,
                                       Len(shaped.arr) - shaped.length + 1,
                                       Len(shaped.arr))
           /\ Len(shaped.arr) < shaped.length
                => \A i \in 1..shaped.length :
                     shaped.out[i] = IF i <= Len(shaped.arr) THEN shaped.arr[i] ELSE 0
           /\ Len(shaped.arr) = shaped.length => shaped.out = shaped.arr

\* C9 amended: padOrTruncate returns exactly L values; a longer input keeps
\* its first L values (the tail is cut off), a shorter one is right-padded
\* with zeros, one of length L is returned unchanged.
C9_KeepsFirstValues ==
    shaped.called
        => /\ Len(shaped.out) = shaped.length
           /\ Len(shaped.arr) > shaped.length
                => \A i \in 1..shaped.length : shaped.out[i] = shaped.arr[i]
           /\ Len(shaped.arr) < shaped.length
                => \A i \in 1..shaped.length :
                     shaped.out[i] = IF i <= Len(shaped.arr) THEN shaped.arr[i] ELSE 0
           /\ Len(shaped.arr) = shaped.length => shaped.out = shaped.arr

C9_Witness ==
    /\ shaped.called
    /\ shaped.length > 0
    /\ Len(shaped.arr) > shaped.length
    /\ shaped.arr[1] # shaped.arr[Len(shaped.arr)]
    /\ shaped.out = SubSeq(shaped.arr, 1, shaped.length)

\* C10: for a series whose window size is 0 or 1, detrendLightCurve returns
\* the input flux, and no output value is NaN or infinite.
C10_DegenerateDetrendIsIdentity ==
    (detrended.called /\ windowSize(Len(detrended.data.time)) <= 1)
        => /\ detrended.out.flux = detrended.data.flux
           /\ \A i \in 1..Len(detrended.out.flux) : IsFinite(detrended.out.flux[i])

\* the k-th smallest of the values flux[j], j in idx, found by counting
KthSmallest(flux, idx, k) ==
    CHOOSE v \in {flux[j] : j \in idx} :
        /\ Cardinality({j \in idx : NumLess(flux[j], v)}) < k
        /\ k <= Cardinality({j \in idx : ~NumLess(v, flux[j])})

\* the median of the values flux[j], j in idx (idx not empty): the middle value,
\* or the mean of the two middle values
MedianOver(flux, idx) ==
    LET c == Cardinality(idx)
    IN  IF c % 2 = 1
        THEN KthSmallest(flux, idx, (c + 1) \div 2)
        ELSE NumDiv(NumAdd(KthSmallest(flux, idx, c \div 2),
                           KthSmallest(flux, idx, (c \div 2) + 1)), Num(2))

\* C11: detrendLightCurve keeps the time axis and the number of samples, and
\* output flux[i] is input flux[i] divided by the median of the input flux
\* over the indices [max(0, i - floor(w/2)), min(N, i + floor(w/2))), with
\* w = min(101, floor(N/10)); the median of an even-length window is the mean
\* of its two middle values.  Over an empty window there is no median and
\* the quotient is NaN.
C11_DetrendDividesByWindowMedian ==
    detrended.called
        => LET flux == detrended.data.flux
               out == detrended.out
               N == Len(flux)
               h == Min(MaxWindow, N \div WindowDivisor) \div 2
           IN  /\ out.time = detrended.data.time
               /\ Len(out.flux) = N
               /\ \A k \in 1..N :
                    LET idx == {j \in 1..N : Max(0, k - 1 - h) < j /\ j <= Min(N, k - 1 + h)}
                    IN  IF idx = {}
                        THEN IsNaN(out.flux[k])
                        ELSE out.flux[k] = NumDiv(flux[k], MedianOver(flux, idx))

C11_Witness ==
    /\ detrended.called
    /\ Len(detrended.data.flux) >= WideLimit
    /\ detrended.out.time = detrended.data.time
    /\ \E k \in 1..Len(detrended.out.flux) :
          /\ IsFinite(detrended.out.flux[k])
          /\ detrended.out.flux[k][2] > 1

\* C12: normalizeFlux returns as many values as it is given, and for a
\* constant series every output value is exactly 0.
C12_ConstantSeriesNormalizeToZero ==
    analysis.fn = "normalizeFlux"
        => /\ Len(analysis.out) = Len(analysis.input)
           /\ (\A i, j \in 1..Len(analysis.input) : analysis.input[i] = analysis.input[j])
                => \A i \in 1..Len(analysis.out) : analysis.out[i] = Num(0)

\* C13: for every light curve, period > 0 and epoch, also an epoch later than
\* sample times, the phases returned by foldLightCurve are non-decreasing
\* and each lies in [0, 1).
C13_PhasesSortedInUnitInterval ==
    analysis.fn = "foldLightCurve"
        => LET phases == analysis.out.time
           IN  /\ \A i \in 1..Len(phases) :
                    ~NumLess(phases[i], Num(0)) /\ NumLess(phases[i], Num(1))
               /\ \A i \in 1..(Len(phases) - 1) : ~NumLess(phases[i + 1], phases[i])

\* C14: calculateBLS rejects a search range with maxPeriod < minPeriod: for a
\* series whose time span gives min(20, (t_last - t_first) / 3) < 0.5 the
\* result has score 0 and period 0.
C14_NarrowRangeRejected ==
    (/\ analysis.fn = "calculateBLS"
     /\ analysis.i = numPeriods
     /\ NumLess(maxPeriodOf(analysis.input), minPeriod))
        => /\ analysis.out.score2 = Num(0)
           /\ analysis.out.period = Num(0)

\* the grid indices (from 1) whose candidate scored above 0
Scoring(grid) == {k \in 1..Len(grid) : NumLess(Num(0), grid[k].score2)}

\* the lowest grid index among the candidates of greatest score
FirstBest(grid) ==
    LET top == {k \in Scoring(grid) :
                  \A j \in Scoring(grid) : ~NumLess(grid[k].score2, grid[j].score2)}
    IN  CHOOSE k \in top : \A j \in top : k <= j

\* C15: calculateBLS returns the candidate of greatest score over the grid of
\* 100 periods, with its period, depth and score; among candidates of equal
\* greatest score the one of lowest grid index; when no candidate scored above
\* 0 it returns period 0, depth 0, score 0.
C15_BestCandidateFirstOnTies ==
    (analysis.fn = "calculateBLS" /\ analysis.i = numPeriods)
        => /\ Len(analysis.grid) = numPeriods
           /\ IF Scoring(analysis.grid) = {}
              THEN analysis.out = NoBest
              ELSE analysis.out = analysis.grid[FirstBest(analysis.grid)]

C15_Witness ==
    /\ analysis.fn = "calculateBLS"
    /\ analysis.i = numPeriods
    /\ Scoring(analysis.grid) # {}
    /\ analysis.out = analysis.grid[FirstBest(analysis.grid)]
    /\ \E j \in Scoring(analysis.grid) :
          /\ j > FirstBest(analysis.grid)
          /\ analysis.grid[j].score2 = analysis.out.score2
    /\ \E k \in Scoring(analysis.grid) :
          NumLess(analysis.grid[k].score2, analysis.out.score2)

\* t mod period for t >= 0 and period > 0
ModPeriod(t, period) ==
    NumSub(t, NumMul(period, Num((t[1] * period[2]) \div (t[2] * period[1]))))

\* the sum of the values flux[i], i in idx
RECURSIVE SumOver(_, _)
SumOver(flux, idx) ==
    IF idx = {} THEN Num(0)
    ELSE LET i == CHOOSE j \in idx : TRUE
         IN  NumAdd(flux[i], SumOver(flux, idx \ {i}))

\* C16: the samples with phase (t mod period) / period < 0.1 or > 0.9 are in
\* transit, all others (also phase exactly 0.1 and 0.9) out of transit; if
\* either partition is empty depth and score are 0, otherwise
\* depth = 1 - mean(in-transit flux) / mean(out-of-transit flux) and
\* score = |depth| * sqrt(number of in-transit samples).
C16_PartitionDepthScore ==
    analysis.fn = "evaluatePeriod"
        => LET time == analysis.input.data.time
               flux == analysis.input.data.flux
               period == analysis.input.period
               inIdx == {i \in 1..Len(time) :
                           \/ NumLess(NumMul(Num(10), ModPeriod(time[i], period)), period)
                           \/ NumLess(NumMul(Num(9), period),
                                      NumMul(Num(10), ModPeriod(time[i], period)))}
               outIdx == (1..Len(time)) \ inIdx
               depth == NumSub(Num(1),
                               NumDiv(NumDiv(SumOver(flux, inIdx), Num(Cardinality(inIdx))),
                                      NumDiv(SumOver(flux, outIdx), Num(Cardinality(outIdx)))))
           IN  IF inIdx = {} \/ outIdx = {}
               THEN analysis.out.depth = Num(0) /\ analysis.out.score2 = Num(0)
               ELSE /\ analysis.out.depth = depth
                    /\ analysis.out.score2
                         = NumMul(NumMul(depth, depth), Num(Cardinality(inIdx)))

C16_Witness ==
    /\ analysis.fn = "evaluatePeriod"
    /\ analysis.input.period = Num(1)
    /\ \E i \in 1..Len(analysis.input.data.time) : analysis.input.data.time[i] = <<1, 10>>
    /\ \E i \in 1..Len(analysis.input.data.time) : analysis.input.data.time[i] = <<9, 10>>
    /\ \E i \in 1..Len(analysis.input.data.time) : analysis.input.data.time[i] = <<19, 20>>
    /\ IsFinite(analysis.out.depth)
    /\ NumLess(Num(0), analysis.out.score2)

\* C17 as stated: every result of calculateBLS has period > 0 and score >= 0.
C17_PeriodAlwaysPositive ==
    (analysis.fn = "calculateBLS" /\ analysis.i = numPeriods)
        => /\ NumLess(Num(0), analysis.out.period)
           /\ ~IsNaN(analysis.out.score2)
           /\ ~NumLess(analysis.out.score2, Num(0))

\* C17 amended: every result of calculateBLS has score >= 0; its period is
\* > 0 when some candidate scored above 0, and is 0, with depth 0 and score 0,
\* when none did.
C17_PeriodPositiveWhenScored ==
    (analysis.fn = "calculateBLS" /\ analysis.i = numPeriods)
        => /\ ~IsNaN(analysis.out.score2)
           /\ ~NumLess(analysis.out.score2, Num(0))
           /\ IF \E k \in 1..numPeriods : NumLess(Num(0), analysis.grid[k].score2)
              THEN /\ NumLess(Num(0), analysis.out.period)
                   /\ NumLess(Num(0), analysis.out.score2)
              ELSE /\ analysis.out.period = Num(0)
                   /\ analysis.out.depth = Num(0)
                   /\ analysis.out.score2 = Num(0)

C17_Witness ==
    /\ analysis.fn = "calculateBLS"
    /\ analysis.i = numPeriods
    /\ Len(analysis.input.time) > 1
    /\ ~NumLess(maxPeriodOf(analysis.input), minPeriod)
    /\ NumLess(Num(0), analysis.out.score2)
    /\ NumLess(Num(0), analysis.out.period)

\* the unit roundoff of the arithmetic, and the bound on the relative error of
\* n roundings in a row
UnitRoundoff == Frac(1, 2 ^ MantissaBits)
ErrorBound(n) ==
    NumDiv(NumMul(Num(n), UnitRoundoff), NumSub(Num(1), NumMul(Num(n), UnitRoundoff)))

FeatureKeys ==
    {"mean", "variance", "std", "min", "max", "range", "skewness", "kurtosis"}

C19_ConstantSeriesGivesNaN ==
    (/\ analysis.fn = "extractFeatures"
     /\ Len(analysis.input) > 0
     /\ \A i \in 1..Len(analysis.input) : analysis.input[i] = analysis.input[1])
        => LET f == analysis.out
           IN  /\ IsNaN(f.skewness) /\ IsNaN(f.kurtosis)
               /\ f.variance = Num(0) /\ f.std = Num(0) /\ f.range = Num(0)
               /\ IsFinite(f.mean) /\ IsFinite(f.min) /\ IsFinite(f.max)

\* C19 amended: for a series whose every value equals the computed mean
\* extractFeatures returns skewness and kurtosis NaN, and variance = 0,
\* std = 0, range = 0 and min = max = mean.
C19_ValuesAtMeanGiveNaN ==
    (/\ analysis.fn = "extractFeatures"
     /\ Len(analysis.input) > 0
     /\ \A i \in 1..Len(analysis.input) : analysis.input[i] = analysis.out.mean)
        => LET f == analysis.out
           IN  /\ IsNaN(f.skewness) /\ IsNaN(f.kurtosis)
               /\ f.variance = Num(0) /\ f.std = Num(0) /\ f.range = Num(0)
               /\ IsFinite(f.mean) /\ f.min = f.mean /\ f.max = f.mean

C19_Witness ==
    /\ analysis.fn = "extractFeatures"
    /\ Len(analysis.input) = MaxFeatLen
    /\ \A i \in 1..Len(analysis.input) : analysis.input[i] = analysis.out.mean
    /\ analysis.out.std = Num(0)
    /\ IsNaN(analysis.out.skewness)
    /\ IsNaN(analysis.out.kurtosis)

\* the test examples of the last evaluateModel call that were predicted as
\* p (1: confidence over the threshold, 0: not) and labelled a
Classified(p, a) ==
    {i \in 1..Len(last.labels) :
        /\ (last.acc.predictions[i] > ConfSteps) <=> (p = 1)
        /\ last.labels[i] = a}

\* C20: evaluateModel counts every test example labelled 0 or 1 in exactly one
\* of TP, TN, FP, FN by its thresholded prediction and its label (examples
\* with another label in none), so that TP+TN+FP+FN = N for labels in {0,1};
\* accuracy = (TP+TN)/N, precision = TP/(TP+FP), recall = TP/(TP+FN),
\* f1 = 2PR/(P+R), and precision, recall and f1 are 0 when their denominator is 0.
C20_ConfusionCountsAndMetrics ==
    (last.op = "evaluateModel" /\ ~last.threw)
        => LET N == Len(last.labels)
               TP == Cardinality(Classified(1, 1))
               TN == Cardinality(Classified(0, 0))
               FP == Cardinality(Classified(1, 0))
               FN == Cardinality(Classified(0, 1))
               P == IF TP + FP = 0 THEN Num(0) ELSE Frac(TP, TP + FP)
               R == IF TP + FN = 0 THEN Num(0) ELSE Frac(TP, TP + FN)
               m == last.metrics
           IN  /\ Len(last.acc.predictions) = N
               /\ last.acc.tp = TP /\ last.acc.tn = TN
               /\ last.acc.fp = FP /\ last.acc.fn = FN
               /\ (\A i \in 1..N : last.labels[i] \in {0, 1}) => TP + TN + FP + FN = N
               /\ m.accuracy = NumDiv(Num(TP + TN), Num(N))
               /\ m.precision = P
               /\ m.recall = R
               /\ m.f1Score = IF NumAdd(P, R) = Num(0) THEN Num(0)
                              ELSE NumDiv(NumMul(Num(2), NumMul(P, R)), NumAdd(P, R))

C20_Witness ==
    /\ last.op = "evaluateModel"
    /\ ~last.threw
    /\ Len(last.labels) = 2
    /\ last.acc.tp = 1
    /\ last.acc.fp = 1
    /\ last.metrics.precision = <<1, 2>>
    /\ last.metrics.f1Score = <<2, 3>>

\* a number of the interval [0, 1]
InUnitInterval(x) == IsFinite(x) /\ ~NumLess(x, Num(0)) /\ ~NumLess(Num(1), x)

\* C21: for every labelled batch given to evaluateModel on an initialized
\* detector, the empty batch and one-class batches included, accuracy,
\* precision, recall, f1Score and rocAuc are numbers in [0, 1].
C21_MetricsInUnitInterval ==
    (last.op = "evaluateModel" /\ ~last.threw)
        => /\ InUnitInterval(last.metrics.accuracy)
           /\ InUnitInterval(last.metrics.precision)
           /\ InUnitInterval(last.metrics.recall)
           /\ InUnitInterval(last.metrics.f1Score)
           /\ InUnitInterval(last.metrics.rocAuc)

\* every thresholded prediction of the last evaluateModel call equals its label
AllPredictionsCorrect ==
    /\ last.op = "evaluateModel"
    /\ ~last.threw
    /\ \A i \in 1..Len(last.labels) :
          last.labels[i] = IF last.acc.predictions[i] > ConfSteps THEN 1 ELSE 0

AllMetricsOne ==
    /\ last.metrics.accuracy = Num(1)
    /\ last.metrics.precision = Num(1)
    /\ last.metrics.recall = Num(1)
    /\ last.metrics.f1Score = Num(1)
    /\ last.metrics.rocAuc = Num(1)

\* C22 as stated: on every labelled set where all thresholded predictions equal
\* their labels, accuracy = precision = recall = f1Score = 1 and rocAuc = 1.
C22_AllCorrectGivesOnes == AllPredictionsCorrect => AllMetricsOne

\* C22 amended: on every labelled set that holds a positive and a negative
\* example and where all thresholded predictions equal their labels,
\* accuracy = precision = recall = f1Score = 1 and rocAuc = 1.
C22_AllCorrectTwoClassesGivesOnes ==
    (/\ AllPredictionsCorrect
     /\ \E i \in 1..Len(last.labels) : last.labels[i] = 1
     /\ \E i \in 1..Len(last.labels) : last.labels[i] = 0)
        => AllMetricsOne

C22_Witness ==
    /\ AllPredictionsCorrect
    /\ \E i \in 1..Len(last.labels) : last.labels[i] = 1
    /\ \E i \in 1..Len(last.labels) : last.labels[i] = 0
    /\ AllMetricsOne

\* the (positive, negative) pairs of examples in which the positive comes
\* first in confidence-descending order, examples of equal confidence keeping
\* the order in which they were supplied
RankedFirst(labels, predictions) ==
    {pr \in (1..Len(labels)) \X (1..Len(labels)) :
        /\ labels[pr[1]] = 1
        /\ labels[pr[2]] # 1
        /\ \/ predictions[pr[1]] > predictions[pr[2]]
           \/ predictions[pr[1]] = predictions[pr[2]] /\ pr[1] < pr[2]}

\* C23: calculateROCAUC returns 0.5 when the labels hold no positive or no
\* negative example, and otherwise the number of (positive, negative) pairs in
\* which the positive is ranked first, divided by positives * negatives.
C23_AucIsFractionOfRankedPairs ==
    analysis.fn = "calculateROCAUC"
        => LET labels == analysis.input.labels
               positives == Cardinality({i \in 1..Len(labels) : labels[i] = 1})
               negatives == Cardinality({i \in 1..Len(labels) : labels[i] = 0})
           IN  analysis.out
                 = IF positives = 0 \/ negatives = 0 THEN <<1, 2>>
                   ELSE Frac(Cardinality(RankedFirst(labels, analysis.input.predictions)),
                             positives * negatives)

C23_Witness ==
    /\ analysis.fn = "calculateROCAUC"
    /\ Len(analysis.input.labels) = MaxAucLen
    /\ \E i, j \in 1..MaxAucLen :
          /\ i < j
          /\ analysis.input.labels[i] = 1
          /\ analysis.input.labels[j] = 0
          /\ analysis.input.predictions[i] = analysis.input.predictions[j]
    /\ NumLess(Num(0), analysis.out)
    /\ NumLess(analysis.out, Num(1))

\* the orders in which n examples can be supplied
Orders(n) == {f \in [1..n -> 1..n] : \A i, j \in 1..n : f[i] = f[j] => i = j}

\* C28: for fixed labels and confidences the result of calculateROCAUC does
\* not depend on the order in which the examples are supplied, a positive and
\* a negative example of equal confidence included.
C28_AucIndependentOfOrder ==
    analysis.fn = "calculateROCAUC"
        => LET labels == analysis.input.labels
               predictions == analysis.input.predictions
               n == Len(labels)
           IN  \A f \in Orders(n) :
                  calculateROCAUC([i \in 1..n |-> labels[f[i]]],
                                  [i \in 1..n |-> predictions[f[i]]]) = analysis.out

\* observed - baseline for a key of the last calculateSHAPValues call
ShapDifference(key) ==
    NumSub(analysis.input.features[key],
           IF key \in DOMAIN analysis.input.baselineValues
           THEN analysis.input.baselineValues[key] ELSE Num(0))

\* value = difference * r for an r with 0 <= r < 1/2
ScaledBelowHalf(value, difference) ==
    IF difference = Num(0) THEN value = Num(0)
    ELSE /\ ~NumLess(NumDiv(value, difference), Num(0))
         /\ NumLess(NumDiv(value, difference), <<1, 2>>)

\* C24 as stated: the result has exactly the keys of features and there is one
\* factor r in [0, 0.5), drawn for the call, with value = (observed - baseline) * r
\* for every key.
C24_OneFactorPerCall ==
    analysis.fn = "calculateSHAPValues"
        => /\ DOMAIN analysis.out = DOMAIN analysis.input.features
           /\ \A key \in DOMAIN analysis.out :
                 ScaledBelowHalf(analysis.out[key], ShapDifference(key))
           /\ \A k1, k2 \in DOMAIN analysis.out :
                 NumMul(analysis.out[k1], ShapDifference(k2))
                     = NumMul(analysis.out[k2], ShapDifference(k1))

\* C24 amended: the result has exactly the keys of features and every value is
\* (observed - baseline) * r for a factor r in [0, 0.5) of its own key, so it
\* is 0 or has the sign of the difference and is below half of it in magnitude.
C24_OneFactorPerKey ==
    analysis.fn = "calculateSHAPValues"
        => /\ DOMAIN analysis.out = DOMAIN analysis.input.features
           /\ \A key \in DOMAIN analysis.out :
                 /\ ScaledBelowHalf(analysis.out[key], ShapDifference(key))
                 /\ \/ analysis.out[key] = Num(0)
                    \/ Sign(analysis.out[key][1]) = Sign(ShapDifference(key)[1])
                 /\ \/ ShapDifference(key) = Num(0)
                    \/ NumLess(<<2 * Abs(analysis.out[key][1]), analysis.out[key][2]>>,
                               <<Abs(ShapDifference(key)[1]), ShapDifference(key)[2]>>)

\* two calls with the same arguments returned different mappings, and the
\* values of one mapping were scaled by different factors
C24_Witness ==
    /\ analysis.fn = "calculateSHAPValues"
    /\ analysis.calls = 2
    /\ analysis.first # analysis.out
    /\ \E k1, k2 \in DOMAIN analysis.out :
          /\ ShapDifference(k1) # Num(0)
          /\ ShapDifference(k2) # Num(0)
          /\ NumDiv(analysis.out[k1], ShapDifference(k1))
                 # NumDiv(analysis.out[k2], ShapDifference(k2))

\* C26: loadModel on a detector that holds a parameter set never keeps it: a
\* failed load leaves a freshly built set, a successful load leaves the stored
\* one, and neither throws.
C26_LoadNeverKeepsPrevious ==
    (last.op = "loadModel" /\ last.before # NoModel)
        => /\ ~last.threw
           /\ IF last.storeOk /\ Loadable(last.blobBefore)
              THEN /\ ~last.built
                   /\ model[last.det] = Deserialize(last.blobBefore)
              ELSE /\ last.built
                   /\ \E w \in Weights : model[last.det] = buildModel(w)

\* a failed load replaced a parameter set by a freshly built one that differs
C26_Witness ==
    /\ last.op = "loadModel"
    /\ last.before # NoModel
    /\ ~(last.storeOk /\ Loadable(last.blobBefore))
    /\ last.built
    /\ model[last.det] # last.before

\* C27: saveModel on a detector without a parameter set completes without
\* error, leaves the blob at the path as it was and builds nothing.
C27_SaveWithoutModelIsNoOp ==
    (last.op = "saveModel" /\ last.before = NoModel)
        => /\ ~last.threw
           /\ store[last.path] = last.blobBefore
           /\ model[last.det] = NoModel
           /\ ~last.built

\* saveModel without a parameter set, at a path that holds a saved blob
C27_Witness ==
    /\ last.op = "saveModel"
    /\ last.before = NoModel
    /\ Loadable(last.blobBefore)
    /\ store[last.path] = last.blobBefore
    /\ ~last.threw

\* C25: detrendLightCurve, normalizeFlux, detectTransits, calculateBLS,
\* foldLightCurve, extractFeatures, predict and evaluateModel leave the time,
\* flux and label arrays passed to them as they were, although they sort.
C25_ArgumentsUnchanged ==
    analysis.fn \in PipelineFunctions
        => /\ analysis.out[TimeRef] = analysis.input[TimeRef]
           /\ analysis.out[FluxRef] = analysis.input[FluxRef]
           /\ analysis.out[LabelsRef] = analysis.input[LabelsRef]

\* extractFeatures sorted a copy of a flux array that is not in ascending order
C25_Witness ==
    /\ analysis.fn = "extractFeatures"
    /\ analysis.input[FluxRef] # SortAsc(analysis.input[FluxRef])
    /\ analysis.out[FluxRef] = analysis.input[FluxRef]
    /\ analysis.out[Len(analysis.out)] = SortAsc(analysis.input[FluxRef])

\* C29: when predict and trainModel calls are in progress together on a
\* detector that had no parameter set, the set is installed exactly once (by
\* the first call, before it suspends), and the forward pass, the fit and the
\* saliency of every call use that one set, which no call replaces.
C29_ModelInstalledOnce ==
    (analysis # NoAnalysis /\ analysis.fn = "concurrent")
        => /\ analysis.installs = 1
           /\ analysis.model # NoModel
           /\ \A p \in Calls :
                 /\ analysis.calls[p].forward \in {0, analysis.installs}
                 /\ analysis.calls[p].saliency \in {0, analysis.installs}
                 /\ analysis.calls[p].pc \in {"data", "saliency", "fit", "done"}
                        => analysis.calls[p].forward = analysis.installs
                 /\ (analysis.calls[p].kind = "predict" /\ analysis.calls[p].pc = "done")
                        => analysis.calls[p].saliency = analysis.calls[p].forward

\* two predict calls that were in progress together have both returned
C29_Witness ==
    /\ analysis # NoAnalysis
    /\ analysis.fn = "concurrent"
    /\ analysis.overlapped
    /\ analysis.installs = 1
    /\ \A p \in 1..2 :
          /\ analysis.calls[p].kind = "predict"
          /\ analysis.calls[p].pc = "done"
          /\ analysis.calls[p].saliency = 1

\* the detector calls of handleTrain, in the order of the code
TrainOrder == <<"buildModel", "trainModel", "evaluateModel", "saveModel">>

\* C30, the part about every state of an execution of handleTrain: the
\* detector calls complete in the order buildModel, trainModel, evaluateModel,
\* saveModel; onTrainingComplete is called at most once, only after all four
\* completed and never after one of them threw; evaluateModel does not throw
\* the uninitialized-model error; the flag is set while the execution runs
\* and reset when it has ended.
TrainRunInOrder ==
    analysis.fn = "handleTrain"
        => /\ Len(analysis.steps) <= Len(TrainOrder)
           /\ analysis.steps = SubSeq(TrainOrder, 1, Len(analysis.steps))
           /\ analysis.completions <= 1
           /\ analysis.completions = 1
                  => /\ analysis.steps = TrainOrder
                     /\ analysis.failed \in {"", "onTrainingComplete"}
           /\ analysis.failed \notin {"", "onTrainingComplete"}
                  => analysis.completions = 0
           /\ analysis.error # "Model not initialized"
           /\ analysis.training <=> analysis.pc # "done"

TrainingFlag == analysis.fn = "handleTrain" /\ analysis.training

\* C30: in every execution of handleTrain the steps run in order, the
\* callback is called at most once and only after a successful saveModel, and
\* on every path the training flag is eventually reset to false.
C30_HandleTrainOrderAndReset == []TrainRunInOrder /\ (TrainingFlag ~> ~TrainingFlag)

\* an execution that called onTrainingComplete after the four calls completed
C30_Witness ==
    /\ analysis.fn = "handleTrain"
    /\ analysis.pc = "done"
    /\ analysis.steps = TrainOrder
    /\ analysis.inserts = StoredSamples
    /\ analysis.completions = 1
    /\ analysis.failed = ""
    /\ ~analysis.training

====
